---------------------------- MODULE Spec2Model ----------------------------
(***************************************************************************)
(* Model of the Telegram bots of the repository.                           *)
(*                                                                         *)
(* src/main.go: the dispatch loop (Bot.Run), the freeform handler          *)
(* (Bot.handleMessage), the completion gateway (Bot.callDeepseekAPI), the  *)
(* long-message delivery (Bot.sendLongMessage) and the chunking function   *)
(* (Bot.splitMessage).                                                     *)
(*                                                                         *)
(* src/unnamed/part_002: the task variant (TodoList and the loop of its    *)
(* main) and the preference variant (the users table, Bot.handleUpdate,    *)
(* Bot.aiChat, Bot.setStyle, Bot.makeAIRequest); the methods of TodoList   *)
(* step by step under the mutex of the list, called concurrently.          *)
(*                                                                         *)
(* A Go string is modelled run-length encoded: a sequence of runs          *)
(* [ch, n], n >= 1 copies of the one-byte character ch, no two adjacent    *)
(* runs with the same character.  len(s) is the sum of the run lengths, so *)
(* texts around MaxMessageLength = 4096 bytes stay small values.           *)
(***************************************************************************)
EXTENDS Integers, Sequences, FiniteSets, TLC

VARIABLES
    split,      \* one call of splitMessage: its arguments and its result
    loop,       \* the dispatch loop of Run: position, current update, its sendLongMessage call
    tasks,      \* the goroutines started by Run, one per freeform update
    userStats,  \* Bot.userStats
    debug,      \* Bot.debug
    crashed,    \* the Go runtime has ended the process with a fatal error
    wire,       \* what the messaging transport has observed
    todoLists,  \* the task variant: todoLists, the list of every user who wrote
    todo,       \* the task variant: the loop of main, its current update and reply
    users,      \* the preference variant: the rows of the table users, user_id -> style
    pref,       \* the preference variant: the loop of main and the handler it is in
    tl,         \* one TodoList shared by concurrent callers: its Items and its mutex mu
    tlBefore,   \* the Items of tl before the first of the concurrent calls
    callers     \* the concurrent callers of the methods of tl: position, call, locals

vars ==
    <<split, loop, tasks, userStats, debug, crashed, wire, todoLists, todo, users, pref,
      tl, tlBefore, callers>>

botVars == <<loop, tasks, userStats, debug, crashed, wire>>

todoVars == <<todoLists, todo>>

prefVars == <<users, pref>>

lockVars == <<tl, tlBefore, callers>>

\* what the bot of src/main.go leaves alone
offBot == <<split, todoVars, prefVars, lockVars>>

\* what the task variant leaves alone
offTodo == <<split, botVars, prefVars, lockVars>>

\* what the preference variant leaves alone
offPref == <<split, botVars, todoVars, lockVars>>

\* what the concurrent callers of one TodoList leave alone
offLock == <<split, botVars, todoVars, prefVars>>

-----------------------------------------------------------------------------
(* Strings *)

SpaceChars == {" ", "\n"}

Run(c, k) == [ch |-> c, n |-> k]

Space == <<Run(" ", 1)>>

IsSpaceRun(r) == r.ch \in SpaceChars

\* len(s): the bytes of the runs, summed by halves
RECURSIVE StrLen(_)
StrLen(s) ==
    IF Len(s) = 0 THEN 0
    ELSE IF Len(s) = 1 THEN s[1].n
    ELSE LET h == Len(s) \div 2
         IN  StrLen(SubSeq(s, 1, h)) + StrLen(SubSeq(s, h + 1, Len(s)))

\* strings.Builder.WriteString / string concatenation, kept run-length canonical
Cat(s, t) ==
    IF s = <<>> THEN t
    ELSE IF t = <<>> THEN s
    ELSE IF s[Len(s)].ch = t[1].ch
         THEN SubSeq(s, 1, Len(s) - 1)
                \o <<Run(t[1].ch, s[Len(s)].n + t[1].n)>>
                \o Tail(t)
         ELSE s \o t

\* strings.Fields: the maximal runs of non-space characters, in order.
\* The runs of s at which a word starts ...
WordStarts(s) ==
    {i \in 1..Len(s) : ~IsSpaceRun(s[i]) /\ (i = 1 \/ IsSpaceRun(s[i - 1]))}

\* ... and the run at which the word that starts at run i ends
WordEnd(s, i) ==
    CHOOSE j \in i..Len(s) :
        /\ \A k \in i..j : ~IsSpaceRun(s[k])
        /\ j = Len(s) \/ IsSpaceRun(s[j + 1])

Fields(s) ==
    LET starts == WordStarts(s)
        nth(k) == CHOOSE i \in starts : Cardinality({j \in starts : j < i}) = k - 1
    IN  [k \in 1..Cardinality(starts) |-> SubSeq(s, nth(k), WordEnd(s, nth(k)))]

\* strings.TrimSpace
RECURSIVE TrimLeft(_)
TrimLeft(s) ==
    IF s # <<>> /\ IsSpaceRun(Head(s)) THEN TrimLeft(Tail(s)) ELSE s

RECURSIVE TrimRight(_)
TrimRight(s) ==
    IF s # <<>> /\ IsSpaceRun(s[Len(s)])
    THEN TrimRight(SubSeq(s, 1, Len(s) - 1))
    ELSE s

TrimSpace(s) == TrimRight(TrimLeft(s))

\* sub occurs in s (strings.Contains), for a sub that starts and ends on run
\* boundaries of s
Contains(s, sub) ==
    \/ sub = <<>>
    \/ \E i \in 1..Len(s) :
         /\ i + Len(sub) - 1 <= Len(s)
         /\ SubSeq(s, i, i + Len(sub) - 1) = sub

-----------------------------------------------------------------------------
(* Bot.splitMessage *)

MaxMessageLength == 4096

\* the mutant drops the separating space from the size test
OverflowsNoSeparator(curLen, wordLen, maxLength) == curLen + wordLen > maxLength

\* currentChunk.Len()+len(word)+1 > maxLength
Overflows(curLen, wordLen, maxLength) == curLen + wordLen + 1 > maxLength

\* the mutant writes the words without the separating space
SplitStepNoSeparator(acc, word, maxLength) ==
    LET sealed == IF /\ Overflows(StrLen(acc.currentChunk), StrLen(word), maxLength)
                     /\ StrLen(acc.currentChunk) > 0
                  THEN [chunks |-> Append(acc.chunks, acc.currentChunk),
                        currentChunk |-> <<>>]
                  ELSE acc
    IN  [chunks |-> sealed.chunks, currentChunk |-> Cat(sealed.currentChunk, word)]

\* the mutant closes the current chunk on overflow even when it is empty
SplitStepSealingEmpty(acc, word, maxLength) ==
    LET sealed == IF Overflows(StrLen(acc.currentChunk), StrLen(word), maxLength)
                  THEN [chunks |-> Append(acc.chunks, acc.currentChunk),
                        currentChunk |-> <<>>]
                  ELSE acc
        sep == IF StrLen(sealed.currentChunk) > 0
               THEN Cat(sealed.currentChunk, Space)
               ELSE sealed.currentChunk
    IN  [chunks |-> sealed.chunks, currentChunk |-> Cat(sep, word)]

\* one iteration of the loop over the words
SplitStep(acc, word, maxLength) ==
    LET sealed == IF /\ Overflows(StrLen(acc.currentChunk), StrLen(word), maxLength)
                     /\ StrLen(acc.currentChunk) > 0
                  THEN [chunks |-> Append(acc.chunks, acc.currentChunk),
                        currentChunk |-> <<>>]
                  ELSE acc
        sep == IF StrLen(sealed.currentChunk) > 0
               THEN Cat(sealed.currentChunk, Space)
               ELSE sealed.currentChunk
    IN  [chunks |-> sealed.chunks, currentChunk |-> Cat(sep, word)]

\* for _, word := range words: each iteration is completed before the next begins
RECURSIVE SplitLoop(_, _, _)
SplitLoop(words, acc, maxLength) ==
    IF words = <<>> THEN acc
    ELSE LET next == SplitStep(acc, Head(words), maxLength)
         IN  IF Len(next.chunks) >= Len(acc.chunks)
             THEN SplitLoop(Tail(words), next, maxLength)
             ELSE next

\* the mutant splits every text by words, short or not
splitMessageAlwaysByWords(text, maxLength) ==
    LET acc == SplitLoop(Fields(text),
                         [chunks |-> <<>>, currentChunk |-> <<>>],
                         maxLength)
    IN  IF StrLen(acc.currentChunk) > 0
        THEN Append(acc.chunks, acc.currentChunk)
        ELSE acc.chunks

splitMessage(text, maxLength) ==
    IF StrLen(text) <= maxLength
    THEN <<text>>
    ELSE LET acc == SplitLoop(Fields(text),
                              [chunks |-> <<>>, currentChunk |-> <<>>],
                              maxLength)
         IN  IF StrLen(acc.currentChunk) > 0
             THEN Append(acc.chunks, acc.currentChunk)
             ELSE acc.chunks

-----------------------------------------------------------------------------
(* Texts of the program *)

\* a literal of the source, as words of the given byte lengths joined by single spaces
RECURSIVE Lit(_)
Lit(lens) ==
    IF lens = <<>> THEN <<>>
    ELSE IF Len(lens) = 1 THEN <<Run("a", lens[1])>>
    ELSE <<Run("a", lens[1])>> \o Space \o Lit(Tail(lens))

\* fmt's %d
RECURSIVE Itoa(_)
Itoa(k) ==
    IF k < 10 THEN <<Run(ToString(k), 1)>>
    ELSE Cat(Itoa(k \div 10), <<Run(ToString(k % 10), 1)>>)

NoChoicesText == Lit(<<16, 4, 14, 12, 10, 4, 4>>)

SendFailedText == Lit(<<3, 12, 6, 16, 12>>)

\* fmt.Sprintf("... `%s` ...", err.Error()) of handleMessage
ErrorReply(errText) ==
    Cat(Cat(Lit(<<3, 18, 12, 6, 18, 2>>) \o <<Run("\n", 2), Run("#", 1)>>, errText),
        <<Run("#", 1), Run("\n", 2)>> \o Lit(<<20, 6, 6, 11>>))

-----------------------------------------------------------------------------
(* Bot.callDeepseekAPI: what it returns for each outcome of the HTTP exchange. *)
(* b.apiKey is not empty: loadConfig refuses to start the bot without it.      *)

Nil == [isErr |-> FALSE, msg |-> <<>>]

Errorf(msg) == [isErr |-> TRUE, msg |-> msg]

ShortBody == Lit(<<8, 5>>)

LongBody == <<Run("b", 3000), Run(" ", 1), Run("a", 3000)>>

PaddedAnswer == <<Run(" ", 2), Run("a", 5), Run("\n", 1)>>

ThreeChunkAnswer ==
    <<Run("a", 3000), Run(" ", 1), Run("b", 3000), Run("\n", 1), Run("a", 3000)>>

OneWordAnswer == <<Run("a", 5000)>>

\* the outcomes of the HTTP exchange the model draws from
HTTPOutcomes ==
    {[kind |-> "failed", status |-> 0, body |-> <<>>]}
    \cup {[kind |-> "status", status |-> 500, body |-> LongBody]}
    \cup {[kind |-> "status", status |-> 404, body |-> ShortBody]}
    \cup {[kind |-> "error", status |-> 200, body |-> ShortBody]}
    \cup {[kind |-> "nochoices", status |-> 200, body |-> <<>>]}
    \cup {[kind |-> "choice", status |-> 200, body |-> c] :
            c \in {PaddedAnswer, ThreeChunkAnswer, OneWordAnswer}}

\* the mutant does not look at the status and reads the body as an answer
callDeepseekAPIIgnoringStatus(http) ==
    IF http.kind = "failed"
    THEN [response |-> <<>>, err |-> Errorf(Lit(<<3, 7, 7>>))]
    ELSE IF http.kind = "unparsable"
    THEN [response |-> <<>>, err |-> Errorf(Lit(<<6, 2, 5, 9>>))]
    ELSE IF http.kind = "error"
    THEN [response |-> <<>>,
          err |-> Errorf(Cat(Lit(<<3, 6>>) \o Space, http.body))]
    ELSE IF http.kind = "nochoices"
    THEN [response |-> NoChoicesText, err |-> Nil]
    ELSE [response |-> TrimSpace(http.body), err |-> Nil]

callDeepseekAPI(http) ==
    IF http.kind = "failed"
    THEN [response |-> <<>>, err |-> Errorf(Lit(<<3, 7, 7>>))]
    ELSE IF http.status # 200
    THEN [response |-> <<>>,
          err |-> Errorf(Cat(Lit(<<3, 5, 7>>) \o Space \o Itoa(http.status)
                               \o <<Run(")", 1), Run(":", 1), Run(" ", 1)>>,
                             http.body))]
    ELSE IF http.kind = "unparsable"
    THEN [response |-> <<>>, err |-> Errorf(Lit(<<6, 2, 5, 9>>))]
    ELSE IF http.kind = "error"
    THEN [response |-> <<>>,
          err |-> Errorf(Cat(Lit(<<3, 6>>) \o Space, http.body))]
    ELSE IF http.kind = "nochoices"
    THEN [response |-> NoChoicesText, err |-> Nil]
    ELSE [response |-> TrimSpace(http.body), err |-> Nil]

-----------------------------------------------------------------------------
(* Bot.sendLongMessage: one call, as the caller's sub-state `sl` *)

NoSend == [chatID |-> 0, chunks |-> <<>>, i |-> 0, pc |-> "none",
           attempts |-> <<>>, accepted |-> <<>>]

\* the texts the call sends, one message each
Parts(text) ==
    IF StrLen(text) <= MaxMessageLength
    THEN <<text>>
    ELSE splitMessage(text, MaxMessageLength)

SLBegin(chatID, text) ==
    [chatID |-> chatID, chunks |-> Parts(text), i |-> 0,
     pc |-> IF Parts(text) = <<>> THEN "ok" ELSE "md",
     attempts |-> <<>>, accepted |-> <<>>]

\* the mutant skips a chunk
NextIndexSkipping(i) == i + 2

\* for i, chunk := range chunks
NextIndex(i) == i + 1

\* the mutant gives up after the formatted attempt
AfterMarkdownNoFallback(ok) == IF ok THEN "next" ELSE "err"

\* if err != nil { msg.ParseMode = ""; sent, err = b.api.Send(msg) }
AfterMarkdown(ok) == IF ok THEN "next" ELSE "plain"

\* the mutant goes on with the next chunk after a chunk was rejected twice
AfterPlainIgnoringError(ok) == "next"

\* if err != nil { return err }
AfterPlain(ok) == IF ok THEN "next" ELSE "err"

\* one b.api.Send(msg) of the call and what follows it up to the next Send
SLSend(sl, ok) ==
    LET content == sl.chunks[sl.i + 1]
        att == [mode |-> IF sl.pc = "md" THEN "Markdown" ELSE "",
                text |-> content, ok |-> ok]
        after == IF sl.pc = "md" THEN AfterMarkdown(ok) ELSE AfterPlain(ok)
        j == IF after = "next" THEN NextIndex(sl.i) ELSE sl.i
    IN  [sl EXCEPT
           !.attempts = IF sl.pc = "md" THEN <<att>> ELSE Append(sl.attempts, att),
           !.accepted = IF ok THEN Append(sl.accepted, content) ELSE sl.accepted,
           !.i = j,
           !.pc = IF after = "next"
                  THEN (IF j < Len(sl.chunks) THEN "md" ELSE "ok")
                  ELSE after]

-----------------------------------------------------------------------------
(* The updates Run receives *)

MaxUpdates == 2

Users == {1, 2}

\* every chat is the private chat of its user: Chat.ID = From.ID
ChatOf(u) == u

UserTexts == {Lit(<<6, 5>>)}

Commands == {"start", "help", "stats", "debug", "test", "other"}

Procs == 1..MaxUpdates

\* Bot.handleCommand: the reply
handleCommand(command, userID, stats, dbg) ==
    CASE command = "start" -> Lit(<<4, 22, 12>>)
      [] command = "help"  -> Lit(<<4, 24, 8, 4, 16>>)
      [] command = "stats" ->
            Lit(<<4, 10, 24>>) \o Space
                \o Itoa(IF userID \in DOMAIN stats THEN stats[userID] ELSE 0)
                \o Space \o Itoa(userID)
                \o Space \o (IF dbg THEN Lit(<<4>>) ELSE Lit(<<5>>))
      [] command = "debug" ->
            Lit(<<4, 10, 14>>) \o Space \o (IF ~dbg THEN Lit(<<14>>) ELSE Lit(<<16>>))
      [] command = "test"  -> Lit(<<3, 6, 16, 20>>)
      [] OTHER             -> Lit(<<3, 22, 16>>)

\* no HTTP exchange yet
NoHTTP == [kind |-> "none", status |-> 0, body |-> <<>>]

\* a goroutine that was not started: its arguments, its locals, the outcome of
\* the HTTP exchange of its call of callDeepseekAPI
NoTask ==
    [pc |-> "none", userID |-> 0, chatID |-> 0, text |-> <<>>, count |-> 0,
     sentMsgID |-> 0, http |-> NoHTTP, response |-> <<>>, err |-> Nil, sl |-> NoSend,
     calls |-> 0, placeholders |-> 0, deletes |-> 0]

\* a goroutine that has returned
DoneTask(userID) == [NoTask EXCEPT !.pc = "done", !.userID = userID]

\* the counter of a user, 0 for a user the map has no entry for
Stat(u) == IF u \in DOMAIN userStats THEN userStats[u] ELSE 0

BotInit ==
    /\ loop = [pc |-> "recv", n |-> 0, sl |-> NoSend]
    /\ tasks = [t \in Procs |-> NoTask]
    /\ userStats = <<>>
    /\ debug = FALSE
    /\ crashed = FALSE
    /\ wire = [c \in {ChatOf(u) : u \in Users} |-> 0]

-----------------------------------------------------------------------------
(* Bot.Run: the loop over the updates *)

\* the mutant handles the message inline: the loop waits for the handler
AfterGoJoining == "join"

\* go func(upd tgbotapi.Update) { ... }(update): the loop goes on at once
AfterGo == "recv"

CanReceive == ~crashed /\ loop.pc = "recv" /\ loop.n < MaxUpdates

\* if update.Message == nil { continue }
RunSkip ==
    /\ CanReceive
    /\ loop' = [loop EXCEPT !.n = loop.n + 1]
    /\ UNCHANGED <<offBot, tasks, userStats, debug, wire>>
    /\ UNCHANGED crashed

\* if update.Message.IsCommand(): handleCommand, then sendLongMessage begins
RunCommand ==
    /\ CanReceive
    /\ \E c \in Commands, u \in Users :
         /\ loop' = [loop EXCEPT
                       !.n = loop.n + 1,
                       !.pc = "send",
                       !.sl = SLBegin(ChatOf(u), handleCommand(c, u, userStats, debug))]
         /\ debug' = IF c = "debug" THEN ~debug ELSE debug
    /\ UNCHANGED <<offBot, tasks, userStats, crashed, wire>>

\* a Send of the command reply; whatever sendLongMessage returns, the loop continues
RunSend ==
    /\ ~crashed
    /\ loop.pc = "send"
    /\ loop.sl.pc \in {"md", "plain"}
    /\ \E ok \in BOOLEAN :
         LET sl == SLSend(loop.sl, ok)
         IN  /\ loop' = IF sl.pc \in {"ok", "err"}
                        THEN [loop EXCEPT !.pc = "recv", !.sl = NoSend]
                        ELSE [loop EXCEPT !.sl = sl]
             /\ wire' = [wire EXCEPT ![loop.sl.chatID] = 0]
    /\ UNCHANGED <<offBot, tasks, userStats, debug, crashed>>

\* a freeform message: a goroutine is started with the update
RunGo ==
    /\ CanReceive
    /\ \E u \in Users, txt \in UserTexts :
         /\ tasks' = [tasks EXCEPT ![loop.n + 1] =
                        [NoTask EXCEPT !.pc = "stats_load", !.userID = u,
                                       !.chatID = ChatOf(u), !.text = txt]]
         /\ loop' = [loop EXCEPT !.n = loop.n + 1, !.pc = AfterGo]
    /\ UNCHANGED <<offBot, userStats, debug, crashed, wire>>

-----------------------------------------------------------------------------
(* Bot.handleMessage, one goroutine per freeform update *)

\* b.userStats[userID]++ : the read of the counter ...
TaskStatsLoad(t) ==
    /\ ~crashed
    /\ tasks[t].pc = "stats_load"
    /\ tasks' = [tasks EXCEPT ![t].count = Stat(tasks[t].userID),
                              ![t].pc = "stats_store"]
    /\ UNCHANGED <<offBot, loop, userStats, debug, crashed, wire>>

\* ... and the write of the incremented value
TaskStatsStore(t) ==
    /\ ~crashed
    /\ tasks[t].pc = "stats_store"
    /\ userStats' = [u \in DOMAIN userStats \cup {tasks[t].userID} |->
                        IF u = tasks[t].userID THEN tasks[t].count + 1
                        ELSE userStats[u]]
    /\ tasks' = [tasks EXCEPT ![t].count = 0, ![t].pc = "typing"]
    /\ UNCHANGED <<offBot, loop, debug, crashed, wire>>

\* two goroutines inside the unsynchronized map update at once: the Go runtime
\* may end the process ("fatal error: concurrent map writes")
RuntimeFatal ==
    /\ ~crashed
    /\ \E t1, t2 \in Procs :
         /\ t1 # t2
         /\ tasks[t1].pc = "stats_store"
         /\ tasks[t2].pc = "stats_store"
    /\ crashed' = TRUE
    /\ UNCHANGED <<offBot, loop, tasks, userStats, debug, wire>>

\* the typing indicator: its failure is only logged
TaskTyping(t) ==
    /\ ~crashed
    /\ tasks[t].pc = "typing"
    /\ tasks' = [tasks EXCEPT ![t].pc = "thinking"]
    /\ UNCHANGED <<offBot, loop, userStats, debug, crashed, wire>>

\* the message id the transport gives the placeholder of task t
PlaceholderID(t) == 100 + t

\* sentMsg, err := b.api.Send(thinkingMsg): sentMsg is the zero Message on error
TaskThinking(t) ==
    /\ ~crashed
    /\ tasks[t].pc = "thinking"
    /\ \E ok \in BOOLEAN :
         tasks' = [tasks EXCEPT
                     ![t].sentMsgID = IF ok THEN PlaceholderID(t) ELSE 0,
                     ![t].placeholders = tasks[t].placeholders + 1,
                     ![t].pc = "call"]
    /\ UNCHANGED <<offBot, loop, userStats, debug, crashed, wire>>

\* b.callDeepseekAPI(ctx, text): the request goes out
TaskCall(t) ==
    /\ ~crashed
    /\ tasks[t].pc = "call"
    /\ tasks' = [tasks EXCEPT ![t].calls = tasks[t].calls + 1,
                              ![t].pc = "await"]
    /\ UNCHANGED <<offBot, loop, userStats, debug, crashed, wire>>

\* the mutant deletes the placeholder whether or not it was sent
ShouldDeleteAlways(sentMsgID) == TRUE

\* if sentMsg.MessageID != 0
ShouldDelete(sentMsgID) == sentMsgID # 0

\* the mutant calls the provider again after an error
AfterAwaitRetrying(isErr, sentMsgID) ==
    IF isErr THEN "call"
    ELSE IF ShouldDelete(sentMsgID) THEN "delete" ELSE "send"

\* the mutant returns from handleMessage when the call failed
AfterAwaitReturning(isErr, sentMsgID) ==
    IF isErr THEN "done"
    ELSE IF ShouldDelete(sentMsgID) THEN "delete" ELSE "send"

\* after the call, error or not: the placeholder's deletion, then the delivery
AfterAwait(isErr, sentMsgID) ==
    IF ShouldDelete(sentMsgID) THEN "delete" ELSE "send"

\* the mutant shows a fixed text instead of the error
FinalTextHidingError(r) ==
    IF r.err.isErr THEN SendFailedText ELSE r.response

\* if err != nil { response = fmt.Sprintf(..., err.Error()) }
FinalText(r) ==
    IF r.err.isErr THEN ErrorReply(r.err.msg) ELSE r.response

\* where a task stands once sendLongMessage is at sl
TaskAt(task, sl) ==
    IF sl.pc = "ok" THEN DoneTask(task.userID)
    ELSE IF sl.pc = "err" THEN [task EXCEPT !.pc = "notice", !.sl = sl]
    ELSE [task EXCEPT !.pc = "send", !.sl = sl]

\* the call returns; response is the answer or the error text
TaskAwait(t) ==
    /\ ~crashed
    /\ tasks[t].pc = "await"
    /\ \E http \in HTTPOutcomes :
         LET r == callDeepseekAPI(http)
             after == AfterAwait(r.err.isErr, tasks[t].sentMsgID)
             task == [tasks[t] EXCEPT !.response = FinalText(r), !.err = r.err,
                                      !.http = http]
         IN  tasks' = [tasks EXCEPT ![t] =
                 IF after = "send"
                 THEN TaskAt(task, SLBegin(task.chatID, task.response))
                 ELSE IF after = "done" THEN DoneTask(task.userID)
                 ELSE [task EXCEPT !.pc = after]]
    /\ UNCHANGED <<offBot, loop, userStats, debug, crashed, wire>>

\* the mutant returns from handleMessage when the deletion failed
AfterDeleteStoppingOnError(ok) == IF ok THEN "send" ELSE "done"

\* a failed deletion is only logged
AfterDelete(ok) == "send"

\* b.api.Send(deleteMsg), then sendLongMessage begins
TaskDelete(t) ==
    /\ ~crashed
    /\ tasks[t].pc = "delete"
    /\ \E ok \in BOOLEAN :
         LET task == [tasks[t] EXCEPT !.deletes = tasks[t].deletes + 1]
         IN  tasks' = [tasks EXCEPT ![t] =
                 IF AfterDelete(ok) = "send"
                 THEN TaskAt(task, SLBegin(task.chatID, task.response))
                 ELSE DoneTask(task.userID)]
    /\ UNCHANGED <<offBot, loop, userStats, debug, crashed, wire>>

\* a Send of sendLongMessage(chatID, response)
TaskSend(t) ==
    /\ ~crashed
    /\ tasks[t].pc = "send"
    /\ \E ok \in BOOLEAN :
         tasks' = [tasks EXCEPT ![t] = TaskAt(tasks[t], SLSend(tasks[t].sl, ok))]
    /\ wire' = [wire EXCEPT ![tasks[t].chatID] = t]
    /\ UNCHANGED <<offBot, loop, userStats, debug, crashed>>

\* sendLongMessage failed: one plain notice, its failure only logged
TaskNotice(t) ==
    /\ ~crashed
    /\ tasks[t].pc = "notice"
    /\ tasks' = [tasks EXCEPT ![t] = DoneTask(tasks[t].userID)]
    /\ UNCHANGED <<offBot, loop, userStats, debug, crashed, wire>>

Next ==
    \/ RunSkip
    \/ RunCommand
    \/ RunSend
    \/ RunGo
    \/ RuntimeFatal
    \/ \E t \in Procs : TaskStatsLoad(t)
    \/ \E t \in Procs : TaskStatsStore(t)
    \/ \E t \in Procs : TaskTyping(t)
    \/ \E t \in Procs : TaskThinking(t)
    \/ \E t \in Procs : TaskCall(t)
    \/ \E t \in Procs : TaskAwait(t)
    \/ \E t \in Procs : TaskDelete(t)
    \/ \E t \in Procs : TaskSend(t)
    \/ \E t \in Procs : TaskNotice(t)

-----------------------------------------------------------------------------
(* The task variant (src/unnamed/part_002, the second program): TodoList *)

\* the mutant numbers the items from zero
NextIDZeroBased(items) == Len(items)

\* the mutant never hands out an id that is still in the list
NextIDUnused(items) ==
    IF \E i \in 1..Len(items) : items[i].ID = Len(items) + 1
    THEN Len(items) + 2
    ELSE Len(items) + 1

\* ID: len(tl.Items) + 1
NextID(items) == Len(items) + 1

\* the mutant puts the new item in front
AddItemInFront(items, text, userID) ==
    LET item == [ID |-> NextID(items), Text |-> text, Done |-> FALSE,
                 UserID |-> userID]
    IN  [Items |-> <<item>> \o items, item |-> item]

\* TodoList.AddItem: the list after the call and the item returned
AddItem(items, text, userID) ==
    LET item == [ID |-> NextID(items), Text |-> text, Done |-> FALSE,
                 UserID |-> userID]
    IN  [Items |-> Append(items, item), item |-> item]

\* for i, item := range tl.Items { if item.ID == id {...; return true} }:
\* the index of the first item with the id, 0 when the loop ends without one
RECURSIVE FirstWithID(_, _, _)
FirstWithID(items, id, i) ==
    IF i > Len(items) THEN 0
    ELSE IF items[i].ID = id THEN i
    ELSE FirstWithID(items, id, i + 1)

\* the mutant removes every item with the id
RemoveItemAllMatches(items, id) ==
    [Items |-> SelectSeq(items, LAMBDA it : it.ID # id),
     found |-> FirstWithID(items, id, 1) # 0]

\* TodoList.RemoveItem: the list after the call and the value returned
RemoveItem(items, id) ==
    LET i == FirstWithID(items, id, 1)
    IN  IF i = 0
        THEN [Items |-> items, found |-> FALSE]
        ELSE [Items |-> SubSeq(items, 1, i - 1) \o SubSeq(items, i + 1, Len(items)),
              found |-> TRUE]

\* the mutant flips every item with the id
ToggleItemAllMatches(items, id) ==
    [Items |-> [i \in 1..Len(items) |->
                   IF items[i].ID = id
                   THEN [items[i] EXCEPT !.Done = ~items[i].Done]
                   ELSE items[i]],
     found |-> FirstWithID(items, id, 1) # 0]

\* TodoList.ToggleItem
ToggleItem(items, id) ==
    LET i == FirstWithID(items, id, 1)
    IN  IF i = 0
        THEN [Items |-> items, found |-> FALSE]
        ELSE [Items |-> [items EXCEPT ![i].Done = ~items[i].Done], found |-> TRUE]

EmptyListText == Lit(<<4, 12, 10, 8>>)

\* fmt.Sprintf("%d. %s %s\n", item.ID, status, item.Text); the status mark
\* is three bytes
ListLine(item) ==
    Cat(Cat(Itoa(item.ID) \o <<Run(".", 1), Run(" ", 1)>>
              \o (IF item.Done THEN <<Run("v", 3)>> ELSE <<Run("x", 3)>>)
              \o Space,
            item.Text),
        <<Run("\n", 1)>>)

RECURSIVE ListLines(_)
ListLines(items) ==
    IF items = <<>> THEN <<>>
    ELSE Cat(ListLine(Head(items)), ListLines(Tail(items)))

\* TodoList.ListItems
ListItems(items) ==
    IF Len(items) = 0 THEN EmptyListText ELSE ListLines(items)

-----------------------------------------------------------------------------
(* The task variant: strconv.Atoi *)

DigitChars == {"0", "1", "2", "3", "4", "5", "6", "7", "8", "9"}

RECURSIVE Pow10(_)
Pow10(n) == IF n = 0 THEN 1 ELSE 10 * Pow10(n - 1)

\* the value of the digits of s read after the digits of value acc
RECURSIVE DigitsVal(_, _)
DigitsVal(s, acc) ==
    IF s = <<>> THEN acc
    ELSE DigitsVal(Tail(s),
                   acc * Pow10(Head(s).n)
                     + (CHOOSE d \in 0..9 : ToString(d) = Head(s).ch) * ((Pow10(Head(s).n) - 1) \div 9))

IsDigits(s) == s # <<>> /\ \A i \in 1..Len(s) : s[i].ch \in DigitChars

\* strconv.Atoi: an optional sign, then decimal digits and nothing else
Atoi(s) ==
    LET signed == s # <<>> /\ s[1].ch \in {"+", "-"} /\ s[1].n = 1
        digits == IF signed THEN Tail(s) ELSE s
    IN  IF IsDigits(digits)
        THEN [ok |-> TRUE,
              val |-> IF signed /\ s[1].ch = "-"
                      THEN 0 - DigitsVal(digits, 0)
                      ELSE DigitsVal(digits, 0)]
        ELSE [ok |-> FALSE, val |-> 0]

-----------------------------------------------------------------------------
(* The task variant: the loop of main *)

MaxTodoUpdates == 5

TodoTexts == {<<Run("a", 3)>>, <<Run("b", 2), Run("\n", 1), Run("a", 1)>>}

\* what follows "/add " in a message
AddArgs == TodoTexts \cup {<<>>}

\* what follows "/remove " or "/toggle " in a message
IdArgs ==
    {Itoa(1), Itoa(2), <<Run("-", 1), Run("1", 1)>>,
     <<Run("a", 1)>>, <<Run("1", 1), Run("a", 1)>>, <<>>}

AddedText(text) == Cat(Lit(<<3, 12, 19>>) \o Space, text)

UsageText == Lit(<<24, 4, 11, 12>>)

BadIDText == Lit(<<3, 14, 2, 12>>)

RemovedText == Lit(<<3, 12, 14>>)

NotFoundText == Lit(<<3, 12, 4, 14>>)

ToggledText == Lit(<<3, 12, 12, 14>>)

TodoHelpText == Lit(<<4, 18, 15>>) \o <<Run("\n", 1)>> \o Lit(<<4, 13, 1, 16, 12>>)

TodoDefaultText == Lit(<<22, 5, 3, 18, 18, 12>>)

NoItem == [ID |-> 0, Text |-> <<>>, Done |-> FALSE, UserID |-> 0]

\* the locals of one iteration, before an update is taken
NoUpdate ==
    [userID |-> 0, cmd |-> "", arg |-> <<>>, response |-> <<>>,
     item |-> NoItem, found |-> FALSE, called |-> ""]

TodoInit ==
    /\ todoLists = <<>>
    /\ todo = [pc |-> "recv", n |-> 0, upd |-> NoUpdate,
               onlyAdds |-> [u \in Users |-> TRUE],
               returned |-> [u \in Users |-> <<>>]]

\* the mutant gives the user a new list with every message
EnsureReplacing(lists, userID) ==
    [u \in DOMAIN lists \cup {userID} |-> IF u = userID THEN <<>> ELSE lists[u]]

\* if _, exists := todoLists[userID]; !exists { todoLists[userID] = &TodoList{} }
Ensure(lists, userID) ==
    [u \in DOMAIN lists \cup {userID} |->
        IF u \in DOMAIN lists THEN lists[u] ELSE <<>>]

\* the lists with the list of userID replaced by items
WithList(lists, userID, items) ==
    [u \in DOMAIN lists \cup {userID} |-> IF u = userID THEN items ELSE lists[u]]

TodoCanReceive == todo.pc = "recv" /\ todo.n < MaxTodoUpdates

\* the loop has the reply of this iteration and goes on to send it
TodoReply(upd, onlyAdds, returned) ==
    todo' = [todo EXCEPT !.pc = "send", !.n = todo.n + 1, !.upd = upd,
                         !.onlyAdds = onlyAdds, !.returned = returned]

\* if update.Message == nil { continue }
TodoSkip ==
    /\ TodoCanReceive
    /\ todo' = [todo EXCEPT !.n = todo.n + 1]
    /\ UNCHANGED <<offTodo, todoLists>>

\* if task == "" { response = usage }
AddRefused(task) == task = <<>>

\* case strings.HasPrefix(text, "/add ")
TodoAdd ==
    /\ TodoCanReceive
    /\ \E u \in Users, task \in AddArgs :
         LET lists == Ensure(todoLists, u)
             r == AddItem(lists[u], task, u)
         IN  IF AddRefused(task)
             THEN /\ todoLists' = lists
                  /\ TodoReply([NoUpdate EXCEPT !.userID = u, !.cmd = "/add ",
                                                !.arg = task, !.response = UsageText],
                               todo.onlyAdds, todo.returned)
             ELSE /\ todoLists' = WithList(lists, u, r.Items)
                  /\ TodoReply([NoUpdate EXCEPT !.userID = u, !.cmd = "/add ",
                                                !.arg = task, !.item = r.item,
                                                !.called = "AddItem",
                                                !.response = AddedText(r.item.Text)],
                               todo.onlyAdds,
                               [todo.returned EXCEPT ![u] =
                                   IF todo.onlyAdds[u] THEN Append(@, r.item) ELSE @])
    /\ UNCHANGED offTodo

\* case text == "/add"
TodoAddNoText ==
    /\ TodoCanReceive
    /\ \E u \in Users :
         /\ todoLists' = Ensure(todoLists, u)
         /\ TodoReply([NoUpdate EXCEPT !.userID = u, !.cmd = "/add",
                                       !.response = UsageText],
                      todo.onlyAdds, todo.returned)
    /\ UNCHANGED offTodo

\* the mutant drops the error of Atoi and goes on with the value it returns
ParsedIDLenient(idStr) == [ok |-> TRUE, val |-> Atoi(idStr).val]

\* id, err := strconv.Atoi(idStr)
ParsedID(idStr) == Atoi(idStr)

\* case strings.HasPrefix(text, "/remove ")
TodoRemove ==
    /\ TodoCanReceive
    /\ \E u \in Users, idStr \in IdArgs :
         LET lists == Ensure(todoLists, u)
             id == ParsedID(idStr)
             r == RemoveItem(lists[u], id.val)
             upd == [NoUpdate EXCEPT !.userID = u, !.cmd = "/remove ", !.arg = idStr]
         IN  IF ~id.ok
             THEN /\ todoLists' = lists
                  /\ TodoReply([upd EXCEPT !.response = BadIDText],
                               todo.onlyAdds, todo.returned)
             ELSE /\ todoLists' = WithList(lists, u, r.Items)
                  /\ TodoReply([upd EXCEPT !.called = "RemoveItem", !.found = r.found,
                                           !.response = IF r.found THEN RemovedText
                                                        ELSE NotFoundText],
                               [todo.onlyAdds EXCEPT ![u] = FALSE],
                               [todo.returned EXCEPT ![u] = <<>>])
    /\ UNCHANGED offTodo

\* case strings.HasPrefix(text, "/toggle ")
TodoToggle ==
    /\ TodoCanReceive
    /\ \E u \in Users, idStr \in IdArgs :
         LET lists == Ensure(todoLists, u)
             id == ParsedID(idStr)
             r == ToggleItem(lists[u], id.val)
             upd == [NoUpdate EXCEPT !.userID = u, !.cmd = "/toggle ", !.arg = idStr]
         IN  IF ~id.ok
             THEN /\ todoLists' = lists
                  /\ TodoReply([upd EXCEPT !.response = BadIDText],
                               todo.onlyAdds, todo.returned)
             ELSE /\ todoLists' = WithList(lists, u, r.Items)
                  /\ TodoReply([upd EXCEPT !.called = "ToggleItem", !.found = r.found,
                                           !.response = IF r.found THEN ToggledText
                                                        ELSE NotFoundText],
                               [todo.onlyAdds EXCEPT ![u] = FALSE],
                               [todo.returned EXCEPT ![u] = <<>>])
    /\ UNCHANGED offTodo

\* case text == "/list"
TodoList ==
    /\ TodoCanReceive
    /\ \E u \in Users :
         LET lists == Ensure(todoLists, u)
         IN  /\ todoLists' = lists
             /\ TodoReply([NoUpdate EXCEPT !.userID = u, !.cmd = "/list",
                                           !.called = "ListItems",
                                           !.response = ListItems(lists[u])],
                          todo.onlyAdds, todo.returned)
    /\ UNCHANGED offTodo

\* case text == "/help" || text == "/start"
TodoHelp ==
    /\ TodoCanReceive
    /\ \E u \in Users, c \in {"/help", "/start"} :
         /\ todoLists' = Ensure(todoLists, u)
         /\ TodoReply([NoUpdate EXCEPT !.userID = u, !.cmd = c,
                                       !.response = TodoHelpText],
                      todo.onlyAdds, todo.returned)
    /\ UNCHANGED offTodo

\* default: any other text, "/remove" and "/toggle" without an argument included
TodoDefault ==
    /\ TodoCanReceive
    /\ \E u \in Users, c \in {"/remove", "other"} :
         /\ todoLists' = Ensure(todoLists, u)
         /\ TodoReply([NoUpdate EXCEPT !.userID = u, !.cmd = c,
                                       !.response = TodoDefaultText],
                      todo.onlyAdds, todo.returned)
    /\ UNCHANGED offTodo

\* if _, err := bot.Send(msg); err != nil { log.Printf(...) }
AfterTodoSend(ok) == "recv"

\* bot.Send(msg): the reply of the iteration
TodoSend ==
    /\ todo.pc = "send"
    /\ \E ok \in BOOLEAN :
         todo' = [todo EXCEPT !.pc = AfterTodoSend(ok), !.upd = NoUpdate]
    /\ UNCHANGED <<offTodo, todoLists>>

TodoNext ==
    \/ TodoSkip
    \/ TodoAdd
    \/ TodoAddNoText
    \/ TodoRemove
    \/ TodoToggle
    \/ TodoList
    \/ TodoHelp
    \/ TodoDefault
    \/ TodoSend

-----------------------------------------------------------------------------
(* The preference variant (src/unnamed/part_002, the first program): the users *)
(* table, the completion gateway and the handlers of Bot                       *)

Styles == {"friendly", "official", "meme"}

\* the labels of the three style buttons
Label(style) ==
    CASE style = "friendly" -> <<Run("f", 22), Run(" ", 1), Run("e", 4)>>
      [] style = "official" -> <<Run("o", 22), Run(" ", 1), Run("e", 4)>>
      [] style = "meme"     -> <<Run("m", 12), Run(" ", 1), Run("e", 4)>>

\* styleButtons of aiChat
StyleButtons == {Label(s) : s \in Styles}

\* selectedStyle, ok := styleMapping[message.Text]
StyleMapping(text) ==
    IF \E s \in Styles : Label(s) = text
    THEN [ok |-> TRUE, style |-> CHOOSE s \in Styles : Label(s) = text]
    ELSE [ok |-> FALSE, style |-> ""]

FriendlyPrompt == Lit(<<4, 22, 2, 12, 18>>)

OfficialPrompt == Lit(<<4, 22, 12, 2, 16, 18>>)

MemePrompt == Lit(<<4, 18, 14, 8, 2, 8>>)

\* the mutant has no prompt for a style it does not know
SystemPromptNoFallback(style) ==
    CASE style = "friendly" -> FriendlyPrompt
      [] style = "official" -> OfficialPrompt
      [] style = "meme"     -> MemePrompt
      [] OTHER              -> <<>>

\* systemPrompt, exists := stylePrompts[style]; if !exists { friendly }
SystemPrompt(style) ==
    CASE style = "official" -> OfficialPrompt
      [] style = "meme"     -> MemePrompt
      [] OTHER              -> FriendlyPrompt

\* Bot.getUserStyle: sql.ErrNoRows gives the default style, any other error is returned
getUserStyle(table, userID, dbOK) ==
    IF ~dbOK THEN [style |-> "", err |-> TRUE]
    ELSE IF userID \notin DOMAIN table THEN [style |-> "friendly", err |-> FALSE]
    ELSE [style |-> table[userID], err |-> FALSE]

\* INSERT OR IGNORE INTO users (user_id, style) VALUES (?, ?)
InsertOrIgnore(table, userID, style) ==
    [u \in DOMAIN table \cup {userID} |->
        IF u \in DOMAIN table THEN table[u] ELSE style]

\* the mutant updates every row
UpdateStyleAllRows(table, userID, style) ==
    [u \in DOMAIN table |-> style]

\* UPDATE users SET style = ? WHERE user_id = ?
UpdateStyle(table, userID, style) ==
    [u \in DOMAIN table |-> IF u = userID THEN style ELSE table[u]]

NoAnswerError == Lit(<<6, 12, 4, 2>>)

\* Bot.makeAIRequest: what it returns for each outcome of the HTTP exchange
makeAIRequest(http) ==
    IF http.kind = "failed"
    THEN [response |-> <<>>, err |-> Errorf(Lit(<<12, 20, 26, 7>>))]
    ELSE IF http.status # 200
    THEN [response |-> <<>>,
          err |-> Errorf(Cat(Lit(<<3, 14, 12>>) \o Space \o Itoa(http.status)
                               \o <<Run(":", 1), Run(" ", 1)>>,
                             http.body))]
    ELSE IF http.kind \in {"nochoices", "error"}
    THEN [response |-> <<>>, err |-> Errorf(NoAnswerError)]
    ELSE [response |-> http.body, err |-> Nil]

WelcomeText == Lit(<<4, 13, 2, 6, 1, 26>>) \o <<Run("\n", 2)>> \o Lit(<<10, 14, 6>>)

ChooseStyleText == Lit(<<12, 10, 16>>)

UnknownCommandText == Lit(<<22, 16, 24, 6, 6, 7>>)

WriteTextPlease == Lit(<<20, 12, 18, 20>>)

StyleSetText(label) == Cat(Lit(<<10, 14, 21>>) \o Space, label)

\* fmt.Sprintf("... %v", err) of aiChat
AiErrorText(errText) == Cat(Lit(<<12, 6, 18, 1, 5>>) \o Space, errText)

-----------------------------------------------------------------------------
(* The preference variant: the loop of main, handleUpdate and aiChat *)

MaxPrefUpdates == 3

PrefCommands == {"start", "style", "other"}

\* the texts of the messages that are no commands: the labels, a label with a
\* space around it, a text of spaces only, a question
PrefTexts ==
    StyleButtons
    \cup {Cat(Space, Cat(Label("meme"), Space)), <<Run(" ", 2)>>, Lit(<<6, 5>>)}

NoMessage == [userID |-> 0, kind |-> "none", text |-> <<>>]

\* the loop at its head, the locals of the last handler call still visible;
\* styleErr is err != nil after getUserStyle, outcome is what the HTTP exchange
\* of the call of makeAIRequest came to
PrefIdle ==
    [pc |-> "recv", n |-> 0, msg |-> NoMessage, style |-> "", styleErr |-> FALSE,
     systemPrompt |-> <<>>,
     sentMsgID |-> 0, outcome |-> "none", response |-> <<>>, err |-> Nil,
     placeholders |-> 0, calls |-> 0, finals |-> 0]

PrefInit ==
    /\ users = <<>>
    /\ pref = PrefIdle

PrefCanReceive == pref.pc = "recv" /\ pref.n < MaxPrefUpdates

\* the handler call of the next update begins
PrefBegin(msg, pc) ==
    [PrefIdle EXCEPT !.n = pref.n + 1, !.msg = msg, !.pc = pc]

\* the handler returns to the loop
PrefReturn == pref' = [pref EXCEPT !.pc = "recv"]

\* handleUpdate: update.Message == nil, or a message that is no command and has no text
PrefSkip ==
    /\ PrefCanReceive
    /\ \E k \in {"nil", "notext"} :
         pref' = PrefBegin([NoMessage EXCEPT !.kind = k], "recv")
    /\ UNCHANGED <<offPref, users>>

\* the reply of handleUpdate to a command
CommandReply(command) ==
    CASE command = "start" -> WelcomeText
      [] command = "style" -> ChooseStyleText
      [] OTHER             -> UnknownCommandText

\* handleUpdate: message.IsCommand(): sendWelcome, chooseStyle or the default reply
PrefCommand ==
    /\ PrefCanReceive
    /\ \E u \in Users, c \in PrefCommands :
         pref' = [PrefBegin([NoMessage EXCEPT !.userID = u, !.kind = c], "command_send")
                    EXCEPT !.response = CommandReply(c)]
    /\ UNCHANGED <<offPref, users>>

\* b.api.Send(msg) of a command's reply: an error is at most logged
PrefCommandSend ==
    /\ pref.pc = "command_send"
    /\ \E ok \in BOOLEAN : PrefReturn
    /\ UNCHANGED <<offPref, users>>

\* aiChat up to its first call: a style button goes to setStyle, a text of
\* whitespace only gets the hint, anything else is a question for the provider
PrefText ==
    /\ PrefCanReceive
    /\ \E u \in Users, text \in PrefTexts :
         LET userPrompt == TrimSpace(text)
             msg == [userID |-> u, kind |-> "prompt", text |-> text]
             selected == StyleMapping(text)
         IN  pref' =
               IF userPrompt \in StyleButtons
               THEN IF selected.ok
                    THEN [PrefBegin([msg EXCEPT !.kind = "button"], "insert")
                            EXCEPT !.style = selected.style]
                    ELSE PrefBegin([msg EXCEPT !.kind = "button"], "recv")
               ELSE IF userPrompt = <<>>
               THEN [PrefBegin([msg EXCEPT !.kind = "blank"], "hint_send")
                       EXCEPT !.response = WriteTextPlease]
               ELSE PrefBegin(msg, "get_style")
    /\ UNCHANGED <<offPref, users>>

\* setUserStyle: the INSERT OR IGNORE; on an error setStyle logs and returns
PrefInsert ==
    /\ pref.pc = "insert"
    /\ \E dbOK \in BOOLEAN :
         IF dbOK
         THEN /\ users' = InsertOrIgnore(users, pref.msg.userID, pref.style)
              /\ pref' = [pref EXCEPT !.pc = "update"]
         ELSE /\ users' = users
              /\ PrefReturn
    /\ UNCHANGED offPref

\* setUserStyle: the UPDATE; on an error setStyle logs and returns
PrefUpdate ==
    /\ pref.pc = "update"
    /\ \E dbOK \in BOOLEAN :
         IF dbOK
         THEN /\ users' = UpdateStyle(users, pref.msg.userID, pref.style)
              /\ pref' = [pref EXCEPT !.pc = "style_send",
                                      !.response = StyleSetText(pref.msg.text)]
         ELSE /\ users' = users
              /\ PrefReturn
    /\ UNCHANGED offPref

\* setStyle: the confirmation is sent
PrefStyleSend ==
    /\ pref.pc = "style_send"
    /\ \E ok \in BOOLEAN : PrefReturn
    /\ UNCHANGED <<offPref, users>>

\* aiChat: the hint for a text of whitespace only is sent
PrefHintSend ==
    /\ pref.pc = "hint_send"
    /\ \E ok \in BOOLEAN : PrefReturn
    /\ UNCHANGED <<offPref, users>>

\* aiChat: getUserStyle, friendly on an error, then the system prompt of the style
PrefGetStyle ==
    /\ pref.pc = "get_style"
    /\ \E dbOK \in BOOLEAN :
         LET r == getUserStyle(users, pref.msg.userID, dbOK)
             style == IF r.err THEN "friendly" ELSE r.style
         IN  pref' = [pref EXCEPT !.style = style,
                                  !.styleErr = r.err,
                                  !.systemPrompt = SystemPrompt(style),
                                  !.pc = "thinking"]
    /\ UNCHANGED <<offPref, users>>

\* sentMsg, err := b.api.Send(thinkingMsg); if err != nil { log; return }
AfterThinking(ok) == IF ok THEN "request" ELSE "recv"

\* aiChat: the placeholder is sent
PrefThinking ==
    /\ pref.pc = "thinking"
    /\ \E ok \in BOOLEAN :
         pref' = [pref EXCEPT !.placeholders = pref.placeholders + 1,
                              !.sentMsgID = IF ok THEN 200 + pref.n ELSE 0,
                              !.pc = AfterThinking(ok)]
    /\ UNCHANGED <<offPref, users>>

\* aiChat: makeAIRequest returns; the final text is the answer or the error text
PrefRequest ==
    /\ pref.pc = "request"
    /\ \E http \in HTTPOutcomes :
         LET r == makeAIRequest(http)
         IN  pref' = [pref EXCEPT !.calls = pref.calls + 1,
                                  !.outcome = http.kind,
                                  !.err = r.err,
                                  !.response = IF r.err.isErr
                                               THEN AiErrorText(r.err.msg)
                                               ELSE r.response,
                                  !.pc = "delete"]
    /\ UNCHANGED <<offPref, users>>

\* aiChat: the placeholder is deleted, the result of the call is not looked at
PrefDelete ==
    /\ pref.pc = "delete"
    /\ \E ok \in BOOLEAN : pref' = [pref EXCEPT !.pc = "final_send"]
    /\ UNCHANGED <<offPref, users>>

\* aiChat: the final text is sent in one message; an error is at most logged
PrefFinalSend ==
    /\ pref.pc = "final_send"
    /\ \E ok \in BOOLEAN :
         pref' = [pref EXCEPT !.finals = pref.finals + 1, !.pc = "recv"]
    /\ UNCHANGED <<offPref, users>>

PrefNext ==
    \/ PrefSkip
    \/ PrefCommand
    \/ PrefCommandSend
    \/ PrefText
    \/ PrefInsert
    \/ PrefUpdate
    \/ PrefStyleSend
    \/ PrefHintSend
    \/ PrefGetStyle
    \/ PrefThinking
    \/ PrefRequest
    \/ PrefDelete
    \/ PrefFinalSend

-----------------------------------------------------------------------------
(* TodoList under its mutex (src/unnamed/part_002, the second program): the *)
(* four methods step by step, called on one list by concurrent callers      *)

MaxCallers == 2

Callers == 1..MaxCallers

\* the user whose list tl is: main calls todoLists[userID].AddItem(task, userID)
OwnerID == 1

\* lists the calls of main can have left behind: empty; items 1 (done) and 2;
\* two items with the id 2
StartLists ==
    LET a == <<Run("a", 3)>>
        b == <<Run("b", 2)>>
        two == ToggleItem(AddItem(AddItem(<<>>, a, OwnerID).Items, b, OwnerID).Items, 1).Items
    IN  {<<>>, two, AddItem(RemoveItem(two, 1).Items, a, OwnerID).Items}

\* the calls a caller can make
LockCalls ==
    {[op |-> "AddItem", text |-> <<Run("a", 3)>>, id |-> 0]}
    \cup {[op |-> o, text |-> <<>>, id |-> i] : o \in {"RemoveItem", "ToggleItem"},
                                                 i \in 1..2}
    \cup {[op |-> "ListItems", text |-> <<>>, id |-> 0]}

\* a caller before its call: the arguments, the locals and the value returned
NoCaller ==
    [pc |-> "idle", op |-> "", text |-> <<>>, id |-> 0, item |-> NoItem, i |-> 0,
     found |-> FALSE, listing |-> <<>>]

LockInit ==
    /\ tl = [Items |-> <<>>, mu |-> 0]
    /\ tlBefore = <<>>
    /\ callers = [p \in Callers |-> NoCaller]

\* the mutant lets a caller in while another holds the mutex
CanLockAlways(mu) == TRUE

\* tl.mu.Lock() returns only when no caller holds the mutex
CanLock(mu) == mu = 0

\* the mutant leaves the mutex locked on the return from inside the loop
UnlockedExceptOnMatch(mu, found) == IF found THEN mu ELSE 0

\* defer tl.mu.Unlock(): runs on every return of the method
Unlocked(mu, found) == 0

\* main reaches the call of a method of the list
CallBegin(p) ==
    /\ callers[p].pc = "idle"
    /\ \E c \in LockCalls :
         callers' = [callers EXCEPT ![p] = [NoCaller EXCEPT !.pc = "lock", !.op = c.op,
                                                            !.text = c.text, !.id = c.id]]
    /\ UNCHANGED <<offLock, tl, tlBefore>>

\* tl.mu.Lock()
Lock(p) ==
    /\ callers[p].pc = "lock"
    /\ CanLock(tl.mu)
    /\ tl' = [tl EXCEPT !.mu = p]
    /\ callers' = [callers EXCEPT ![p].pc = CASE callers[p].op = "AddItem"   -> "build"
                                               [] callers[p].op = "ListItems" -> "read"
                                               [] OTHER                       -> "scan"]
    /\ UNCHANGED <<offLock, tlBefore>>

\* item := TodoItem{ID: len(tl.Items) + 1, Text: text, Done: false, UserID: userID}
AddBuild(p) ==
    /\ callers[p].pc = "build"
    /\ callers' = [callers EXCEPT ![p].pc = "append",
                                  ![p].item = [ID |-> NextID(tl.Items),
                                               Text |-> callers[p].text,
                                               Done |-> FALSE, UserID |-> OwnerID]]
    /\ UNCHANGED <<offLock, tl, tlBefore>>

\* tl.Items = append(tl.Items, item)
AddAppend(p) ==
    /\ callers[p].pc = "append"
    /\ tl' = [tl EXCEPT !.Items = Append(@, callers[p].item)]
    /\ callers' = [callers EXCEPT ![p].pc = "return"]
    /\ UNCHANGED <<offLock, tlBefore>>

\* for i, item := range tl.Items { if item.ID == id {
Scan(p) ==
    /\ callers[p].pc = "scan"
    /\ LET i == FirstWithID(tl.Items, callers[p].id, 1)
       IN  callers' = [callers EXCEPT
                          ![p].i = i,
                          ![p].pc = IF i = 0 THEN "return"
                                    ELSE IF callers[p].op = "RemoveItem" THEN "cut"
                                    ELSE "flip"]
    /\ UNCHANGED <<offLock, tl, tlBefore>>

\* tl.Items = append(tl.Items[:i], tl.Items[i+1:]...); return true
RemoveCut(p) ==
    /\ callers[p].pc = "cut"
    /\ tl' = [tl EXCEPT !.Items = SubSeq(@, 1, callers[p].i - 1)
                                    \o SubSeq(@, callers[p].i + 1, Len(@))]
    /\ callers' = [callers EXCEPT ![p].pc = "return", ![p].found = TRUE]
    /\ UNCHANGED <<offLock, tlBefore>>

\* tl.Items[i].Done = !tl.Items[i].Done; return true
ToggleFlip(p) ==
    /\ callers[p].pc = "flip"
    /\ tl' = [tl EXCEPT !.Items[callers[p].i].Done = ~@]
    /\ callers' = [callers EXCEPT ![p].pc = "return", ![p].found = TRUE]
    /\ UNCHANGED <<offLock, tlBefore>>

\* the body of ListItems
ListRead(p) ==
    /\ callers[p].pc = "read"
    /\ callers' = [callers EXCEPT ![p].pc = "return",
                                  ![p].listing = ListItems(tl.Items)]
    /\ UNCHANGED <<offLock, tl, tlBefore>>

\* the method returns: the deferred tl.mu.Unlock() runs, main has the result
Return(p) ==
    /\ callers[p].pc = "return"
    /\ tl' = [tl EXCEPT !.mu = Unlocked(@, callers[p].found)]
    /\ callers' = [callers EXCEPT ![p].pc = "send"]
    /\ UNCHANGED <<offLock, tlBefore>>

\* bot.Send(msg) with the response made of the result; its error is only logged
LockSend(p) ==
    /\ callers[p].pc = "send"
    /\ \E ok \in BOOLEAN : callers' = [callers EXCEPT ![p].pc = AfterTodoSend(ok)]
    /\ UNCHANGED <<offLock, tl, tlBefore>>

CallerNext(p) ==
    \/ CallBegin(p)
    \/ Lock(p)
    \/ AddBuild(p)
    \/ AddAppend(p)
    \/ Scan(p)
    \/ RemoveCut(p)
    \/ ToggleFlip(p)
    \/ ListRead(p)
    \/ Return(p)
    \/ LockSend(p)

LockNext == \E p \in Callers : CallerNext(p)

-----------------------------------------------------------------------------
(* The inputs of one splitMessage call *)

MaxRuns == 5

MaxRunLen == 2

MaxSplitLength == 4

\* the runs of a text: a letter, a space or a line feed, up to MaxRunLen times
RunSet == {Run(c, k) : c \in {"a", " ", "\n"}, k \in 1..MaxRunLen}

Canonical(s) == \A i \in 1..(Len(s) - 1) : s[i].ch # s[i + 1].ch

SplitTexts ==
    UNION {{s \in [1..k -> RunSet] : Canonical(s)} : k \in 0..MaxRuns}

NoCall == [pc |-> "idle", text |-> <<>>, maxLength |-> 0, chunks |-> <<>>]

SplitInit ==
    /\ split \in {[pc |-> "call", text |-> t, maxLength |-> m, chunks |-> <<>>] :
                    t \in SplitTexts, m \in 1..MaxSplitLength}
    /\ BotInit
    /\ TodoInit
    /\ PrefInit
    /\ LockInit

SplitCall ==
    /\ split.pc = "call"
    /\ split' = [split EXCEPT !.pc = "done",
                              !.chunks = splitMessage(split.text, split.maxLength)]
    /\ UNCHANGED <<botVars, todoVars, prefVars, lockVars>>

SplitNext == SplitCall

SplitSpec == SplitInit /\ [][SplitNext]_vars

-----------------------------------------------------------------------------
(* The bot *)

Init == split = NoCall /\ BotInit /\ TodoInit /\ PrefInit /\ LockInit

Spec == Init /\ [][Next]_vars

-----------------------------------------------------------------------------
(* The task variant *)

TodoSpec == Init /\ [][TodoNext]_vars

-----------------------------------------------------------------------------
(* The preference variant *)

PrefSpec == Init /\ [][PrefNext]_vars

\* The table users is a file that outlives the process: a run can find rows
\* of earlier runs in it, a style this version has no prompt for included
StyleInit ==
    /\ split = NoCall
    /\ BotInit
    /\ TodoInit
    /\ LockInit
    /\ users \in UNION {[us -> Styles \cup {"pirate"}] : us \in SUBSET Users}
    /\ pref = PrefIdle

StyleSpec == StyleInit /\ [][PrefNext]_vars

-----------------------------------------------------------------------------
(* One TodoList and its concurrent callers *)

LockSpecInit ==
    /\ split = NoCall
    /\ BotInit
    /\ TodoInit
    /\ PrefInit
    /\ tl \in {[Items |-> l, mu |-> 0] : l \in StartLists}
    /\ tlBefore = tl.Items
    /\ callers = [p \in Callers |-> NoCaller]

LockSpec == LockSpecInit /\ [][LockNext]_vars

\* every goroutine that can take a step takes one in the end, and a caller
\* waiting in Lock gets the mutex in the end when it is unlocked again and
\* again (sync.Mutex hands a starving waiter the mutex)
LockFairSpec ==
    /\ LockSpec
    /\ \A p \in Callers : WF_vars(CallerNext(p)) /\ SF_vars(Lock(p))

-----------------------------------------------------------------------------
(* C1 *)

IsWord(s) == s # <<>> /\ \A i \in 1..Len(s) : ~IsSpaceRun(s[i])

\* C1 as stated: every chunk returned by splitMessage(text, maxLength) has
\* length <= maxLength.
C1_EveryChunkWithinMax ==
    split.pc = "done" =>
        \A i \in 1..Len(split.chunks) : StrLen(split.chunks[i]) <= split.maxLength

\* C1 amended: every chunk returned by splitMessage(text, maxLength) has
\* length <= maxLength, except a chunk that is one single word of the text
\* which is itself longer than maxLength.
C1_ChunkWithinMaxOrOneLongWord ==
    split.pc = "done" =>
        \A i \in 1..Len(split.chunks) :
            \/ StrLen(split.chunks[i]) <= split.maxLength
            \/ /\ IsWord(split.chunks[i])
               /\ \E w \in 1..Len(Fields(split.text)) :
                    Fields(split.text)[w] = split.chunks[i]

\* a split into several chunks, one of them two words filling maxLength exactly
C1_Witness ==
    /\ split.pc = "done"
    /\ Len(split.chunks) >= 2
    /\ \E i \in 1..Len(split.chunks) :
         /\ StrLen(split.chunks[i]) = split.maxLength
         /\ Len(Fields(split.chunks[i])) = 2

-----------------------------------------------------------------------------
(* C2 *)

\* the sendLongMessage calls in progress: those of the goroutines and the loop's
Calls ==
    {tasks[t].sl : t \in {p \in Procs : tasks[p].pc \in {"send", "notice"}}}
    \cup (IF loop.pc = "send" THEN {loop.sl} ELSE {})

InOrder(sl) ==
    /\ sl.i <= Len(sl.chunks)
    /\ sl.accepted = SubSeq(sl.chunks, 1, sl.i)
    /\ sl.pc \in {"md", "plain", "err"} => sl.i < Len(sl.chunks)
    /\ \A k \in 1..Len(sl.attempts) :
         sl.attempts[k].text =
            sl.chunks[IF sl.attempts[Len(sl.attempts)].ok THEN sl.i ELSE sl.i + 1]

\* C2: within one call of sendLongMessage the transport observes the chunks in
\* strict index order: every attempt is for the chunk after the last accepted
\* one, the chunks accepted so far are exactly chunks 0..i-1 in order (none
\* twice, none skipped), and the call returns success only from the last chunk
\* with all chunks before it accepted.
C2_ChunksInIndexOrder ==
    [][ /\ \A sl \in Calls' : InOrder(sl)
        /\ \A t \in Procs :
             (tasks[t].pc = "send" /\ tasks'[t].pc = "done") =>
                /\ tasks[t].sl.i = Len(tasks[t].sl.chunks) - 1
                /\ Len(tasks[t].sl.accepted) = Len(tasks[t].sl.chunks) - 1 ]_vars

\* a three-chunk reply whose first two chunks the transport has accepted
C2_Witness ==
    \E t \in Procs :
        /\ tasks[t].pc = "send"
        /\ Len(tasks[t].sl.chunks) = 3
        /\ tasks[t].sl.i = 2
        /\ tasks[t].sl.accepted = SubSeq(tasks[t].sl.chunks, 1, 2)

-----------------------------------------------------------------------------
(* C3 *)

\* task t makes a Send of its sendLongMessage call in this step
Sends(t) == tasks[t].pc = "send" /\ tasks'[t] # tasks[t]

\* C3: when two freeform messages are handled concurrently, the sends of one
\* reply reach the transport in index order with no send of the other message's
\* reply between them: a task sends a chunk after its first only if the last
\* reply send the chat has seen is not another task's.
C3_NoInterleavedReplies ==
    [][ \A t \in Procs :
          (Sends(t) /\ tasks[t].sl.i >= 1) =>
             wire[tasks[t].chatID] \notin (Procs \ {t}) ]_vars

-----------------------------------------------------------------------------
(* C4 *)

\* the goroutines of user u that have passed b.userStats[userID]++
Counted(u) ==
    {t \in Procs : /\ tasks[t].userID = u
                   /\ tasks[t].pc \notin {"none", "stats_load", "stats_store"}}

\* the part of C4 about the critical section: no two goroutines are inside the
\* read-modify-write of the counter at once (violated as soon as two goroutines
\* have both read the counter)
MutualExclusion ==
    \A t1, t2 \in Procs :
        (tasks[t1].pc = "stats_store" /\ tasks[t2].pc = "stats_store") => t1 = t2

\* C4: the counter is updated under mutual exclusion, so no increment is lost:
\* the counter of a user equals the number of that user's freeform messages
\* whose increment is done, hence n once n messages have been handled.
C4_NoIncrementLost ==
    \A u \in Users : Stat(u) = Cardinality(Counted(u))

-----------------------------------------------------------------------------
(* C5 *)

Awaiting(t) == tasks[t].pc = "await"

\* C5: the loop never waits for a freeform handler: it is either at the head of
\* the loop or inside the reply of a command; while a completion call is pending
\* and updates remain, the loop at its head can take any next update (skip,
\* command or freeform); while a command's reply is being sent no update is
\* consumed.
C5_LoopNeverWaitsForHandler ==
    /\ loop.pc \in {"recv", "send"}
    /\ loop.pc = "recv" => loop.sl = NoSend
    /\ loop.pc = "send" => loop.sl.pc \in {"md", "plain"}
    /\ (~crashed /\ loop.n < MaxUpdates /\ loop.pc # "send"
            /\ \E t \in Procs : Awaiting(t)) =>
          (ENABLED RunSkip /\ ENABLED RunCommand /\ ENABLED RunGo)
    /\ loop.pc = "send" =>
          ~(ENABLED RunSkip \/ ENABLED RunCommand \/ ENABLED RunGo)

\* a completion call is pending while a later freeform message is already
\* being handled
C5_Witness ==
    /\ Awaiting(1)
    /\ tasks[2].pc \in {"typing", "thinking", "call", "await"}

\* a completion call is pending while the loop sends the reply of a later command
C5_WitnessCommand == Awaiting(1) /\ loop.pc = "send"

-----------------------------------------------------------------------------
(* C6 *)

Flow ==
    {<<"none", "stats_load">>, <<"stats_load", "stats_store">>,
     <<"stats_store", "typing">>, <<"typing", "thinking">>,
     <<"thinking", "call">>, <<"call", "await">>,
     <<"await", "delete">>, <<"await", "send">>, <<"delete", "send">>,
     <<"send", "send">>, <<"send", "notice">>, <<"send", "done">>,
     <<"notice", "done">>}

\* C6: a freeform message goes Idle -> AwaitingCompletion -> DeliveringChunks ->
\* Idle; when the completion call fails the handler does not stop: it takes the
\* same steps as after an answer (the placeholder's deletion, then the chunked
\* delivery) with a text that embeds the error.
C6_ErrorGoesToDelivery ==
    [][ \A t \in Procs :
          tasks'[t] # tasks[t] =>
            /\ <<tasks[t].pc, tasks'[t].pc>> \in Flow
            /\ tasks[t].pc = "await" =>
                 /\ tasks'[t].err.isErr =>
                      /\ Contains(tasks'[t].response, tasks'[t].err.msg)
                      /\ tasks'[t].response # tasks'[t].err.msg
                 /\ tasks'[t].pc = "send" =>
                      /\ tasks'[t].sl.chunks = Parts(tasks'[t].response)
                      /\ tasks'[t].sl.i = 0
            /\ tasks[t].pc = "delete" =>
                 /\ tasks'[t].pc = "send"
                 /\ tasks'[t].sl.chunks = Parts(tasks[t].response)
                 /\ tasks'[t].sl.i = 0 ]_vars

\* the error text of a failed completion call is being delivered in chunks
C6_Witness ==
    \E t \in Procs :
        /\ tasks[t].pc = "send"
        /\ tasks[t].err.isErr
        /\ Len(tasks[t].sl.chunks) >= 2
        /\ tasks[t].sl.i >= 1

-----------------------------------------------------------------------------
(* C7 *)

PlaceholderOrder(task) ==
    /\ task.calls >= 1 => task.placeholders = 1
    /\ task.pc \in {"call", "await"} => task.deletes = 0
    /\ task.deletes >= 1 =>
         /\ task.deletes = 1
         /\ task.calls = 1
         /\ task.sentMsgID # 0
    /\ task.pc = "delete" => task.sl = NoSend /\ task.deletes = 0
    /\ (task.pc \in {"send", "notice"} /\ task.sentMsgID # 0) => task.deletes = 1

\* C7: the placeholder is sent before the completion call starts; its deletion
\* is attempted after the call has returned and before any chunk of the final
\* text is sent, and only if the placeholder send succeeded; whether or not the
\* deletion succeeds, the delivery of the final text begins next.
C7_PlaceholderDeletedBeforeDelivery ==
    [][ \A t \in Procs :
          /\ PlaceholderOrder(tasks'[t])
          /\ (tasks[t].pc = "delete" /\ tasks'[t] # tasks[t]) =>
                /\ tasks'[t].pc = "send"
                /\ tasks'[t].sl.pc = "md"
                /\ tasks'[t].sl.accepted = <<>> ]_vars

\* the placeholder was sent and deleted, and the delivery is under way
C7_Witness ==
    \E t \in Procs :
        /\ tasks[t].pc = "send"
        /\ tasks[t].sentMsgID # 0
        /\ tasks[t].deletes = 1
        /\ tasks[t].sl.i >= 1

\* the placeholder send failed: the delivery is under way without a deletion
C7_WitnessNoPlaceholder ==
    \E t \in Procs :
        /\ tasks[t].pc = "send"
        /\ tasks[t].sentMsgID = 0
        /\ tasks[t].deletes = 0

-----------------------------------------------------------------------------
(* C8 *)

\* C8: handling one freeform message invokes the completion provider exactly
\* once, whatever the outcome: never twice, and once by the time the handler
\* has the outcome; the call changes neither userStats nor debug nor any other
\* goroutine's state nor the loop.
C8_ProviderCalledOnce ==
    [][ \A t \in Procs :
          /\ tasks'[t].calls <= 1
          /\ tasks'[t].pc \in {"await", "delete", "send", "notice"} =>
                tasks'[t].calls = 1
          /\ (tasks[t].pc # "done" /\ tasks'[t].pc = "done") => tasks[t].calls = 1
          /\ (tasks[t].pc \in {"call", "await"} /\ tasks'[t] # tasks[t]) =>
                /\ UNCHANGED <<userStats, debug, loop, wire>>
                /\ \A o \in Procs \ {t} : tasks'[o] = tasks[o] ]_vars

\* a failed completion call has returned and was not repeated
C8_Witness ==
    \E t \in Procs :
        /\ tasks[t].pc \in {"delete", "send"}
        /\ tasks[t].err.isErr
        /\ tasks[t].calls = 1

-----------------------------------------------------------------------------
(* C9 *)

FormatFallback(sl) ==
    /\ Len(sl.attempts) <= 2
    /\ sl.attempts # <<>> => sl.attempts[1].mode = "Markdown"
    /\ Len(sl.attempts) = 2 =>
         /\ ~sl.attempts[1].ok
         /\ sl.attempts[2].mode = ""
         /\ sl.attempts[2].text = sl.attempts[1].text
    /\ sl.pc = "plain" <=> (Len(sl.attempts) = 1 /\ ~sl.attempts[1].ok)

\* C9: within sendLongMessage the first attempt for a message or chunk is
\* formatted (Markdown); if and only if the transport rejects it, the same
\* content is sent once more in plain form; no chunk gets more than two
\* attempts, and the placeholder and its deletion are attempted at most once.
C9_OneFormatFallback ==
    /\ \A sl \in Calls : FormatFallback(sl)
    /\ \A t \in Procs : tasks[t].placeholders <= 1 /\ tasks[t].deletes <= 1

\* a chunk after the first went through after its formatted attempt was rejected
C9_Witness ==
    \E t \in Procs :
        /\ tasks[t].pc = "send"
        /\ tasks[t].sl.i = 2
        /\ Len(tasks[t].sl.attempts) = 2
        /\ tasks[t].sl.attempts[2].ok

-----------------------------------------------------------------------------
(* C10 *)

RejectedTwice(sl) ==
    /\ Len(sl.attempts) = 2
    /\ ~sl.attempts[1].ok
    /\ ~sl.attempts[2].ok

\* C10: a chunk rejected in both attempts makes sendLongMessage return an error
\* with no later chunk sent; handleMessage then makes one attempt to send the
\* plain error notice and returns, whether or not the notice was delivered.
C10_RejectedChunkEndsDelivery ==
    [][ \A t \in Procs :
          /\ (tasks'[t].pc \in {"send", "notice"} /\ RejectedTwice(tasks'[t].sl)) =>
                /\ tasks'[t].pc = "notice"
                /\ tasks'[t].sl.pc = "err"
                /\ tasks'[t].sl.accepted = SubSeq(tasks'[t].sl.chunks, 1, tasks'[t].sl.i)
                /\ tasks'[t].sl.i < Len(tasks'[t].sl.chunks)
          /\ tasks'[t].pc = "notice" => RejectedTwice(tasks'[t].sl)
          /\ (tasks[t].pc = "notice" /\ tasks'[t] # tasks[t]) =>
                tasks'[t].pc = "done" ]_vars

\* the second of three chunks was rejected twice: the third is never sent
C10_Witness ==
    \E t \in Procs :
        /\ tasks[t].pc = "notice"
        /\ Len(tasks[t].sl.chunks) = 3
        /\ tasks[t].sl.i = 1
        /\ Len(tasks[t].sl.accepted) = 1

-----------------------------------------------------------------------------
(* C12 *)

\* C12: no error in handling a message terminates the dispatch loop, which ends
\* only when the update stream ends: the process is never ended from within
\* the handling of messages, and the loop is always either at its head, ready
\* for the next update, or sending the reply of a command.
C12_LoopEndsOnlyWithStream ==
    /\ ~crashed
    /\ loop.pc \in {"recv", "send"}

-----------------------------------------------------------------------------
(* C13 *)

\* C13: no message that sendLongMessage hands to the transport is longer than
\* MaxMessageLength, and a reply longer than MaxMessageLength is split into
\* several messages.
C13_NoOutboundOverMax ==
    \A t \in Procs :
        tasks[t].pc \in {"send", "notice"} =>
            /\ \A k \in 1..Len(tasks[t].sl.chunks) :
                 StrLen(tasks[t].sl.chunks[k]) <= MaxMessageLength
            /\ StrLen(tasks[t].response) > MaxMessageLength =>
                 Len(tasks[t].sl.chunks) >= 2

-----------------------------------------------------------------------------
(* C14 *)

\* C14: for a text with len(text) <= maxLength, splitMessage returns exactly the
\* one-element sequence [text], the text unchanged with its whitespace, and
\* splitting the result again gives the same result.
C14_ShortTextUnchanged ==
    (split.pc = "done" /\ StrLen(split.text) <= split.maxLength) =>
        /\ split.chunks = <<split.text>>
        /\ splitMessage(split.chunks[1], split.maxLength) = split.chunks

\* a short text that starts with whitespace and has a run of two spaces or
\* newlines inside was split
C14_Witness ==
    /\ split.pc = "done"
    /\ StrLen(split.text) <= split.maxLength
    /\ Len(split.text) >= 3
    /\ IsSpaceRun(split.text[1])
    /\ IsSpaceRun(split.text[3]) /\ split.text[3].n = 2

-----------------------------------------------------------------------------
(* C15 *)

\* strings.Join(parts, " ")
RECURSIVE JoinSpace(_)
JoinSpace(parts) ==
    IF parts = <<>> THEN <<>>
    ELSE IF Len(parts) = 1 THEN parts[1]
    ELSE Cat(Cat(parts[1], Space), JoinSpace(Tail(parts)))

\* the words of all the chunks, in order
RECURSIVE WordsOf(_)
WordsOf(chunks) ==
    IF chunks = <<>> THEN <<>> ELSE Fields(Head(chunks)) \o WordsOf(Tail(chunks))

\* C15: for a text longer than maxLength, the chunks joined with single spaces
\* equal the words of the text, in their order, joined with single spaces; the
\* words of the chunks taken in order are the words of the text: none is
\* dropped, doubled, reordered or split across two chunks.
C15_ChunksKeepTheWords ==
    (split.pc = "done" /\ StrLen(split.text) > split.maxLength) =>
        /\ JoinSpace(split.chunks) = JoinSpace(Fields(split.text))
        /\ WordsOf(split.chunks) = Fields(split.text)

\* a long text of three words, separated by more than single spaces, came out
\* as two chunks, one of them with two words
C15_Witness ==
    /\ split.pc = "done"
    /\ StrLen(split.text) > split.maxLength
    /\ Len(Fields(split.text)) = 3
    /\ Len(split.chunks) = 2
    /\ split.text # JoinSpace(Fields(split.text))

-----------------------------------------------------------------------------
(* C16 *)

\* the positions of the words longer than maxLength among the words
LongWords(words, maxLength) ==
    {k \in 1..Len(words) : StrLen(words[k]) > maxLength}

\* C16: a text that is a single word longer than maxLength comes back as the
\* one-element sequence holding that word unmodified; a word longer than
\* maxLength among other words is a chunk of its own: the chunks that are
\* longer than maxLength are exactly these words, in their order.
C16_LongWordIsOneChunk ==
    split.pc = "done" =>
        LET words == Fields(split.text)
            long == LongWords(words, split.maxLength)
            big == LongWords(split.chunks, split.maxLength)
        IN  /\ (words = <<split.text>> /\ long = {1}) => split.chunks = <<split.text>>
            /\ long # {} =>
                 /\ Cardinality(big) = Cardinality(long)
                 /\ \A k \in long :
                      \E i \in big :
                          /\ split.chunks[i] = words[k]
                          /\ Cardinality({j \in big : j < i})
                               = Cardinality({j \in long : j < k})

\* a word longer than maxLength stood between two short words
C16_Witness ==
    /\ split.pc = "done"
    /\ Len(Fields(split.text)) = 3
    /\ LongWords(Fields(split.text), split.maxLength) = {2}
    /\ Len(split.chunks) = 3

\* a text that is one word longer than maxLength was split
C16_WitnessSingleWord ==
    /\ split.pc = "done"
    /\ Fields(split.text) = <<split.text>>
    /\ StrLen(split.text) > split.maxLength

-----------------------------------------------------------------------------
(* C17 *)

\* the list of a user, empty for a user who has none yet
ListOf(lists, u) == IF u \in DOMAIN lists THEN lists[u] ELSE <<>>

\* this step is a call of the store operation op by the loop
Calling(op) == todo.pc = "recv" /\ todo'.pc = "send" /\ todo'.upd.called = op

\* C17: AddItem always succeeds: it appends exactly one item at the end, with
\* id = (number of items before the call) + 1, done = false and the given
\* text, returns that item, and leaves the items before it and their order
\* unchanged.
C17_AddItemAppends ==
    [][ Calling("AddItem") =>
          LET u == todo'.upd.userID
              before == ListOf(todoLists, u)
              after == todoLists'[u]
              item == todo'.upd.item
          IN  /\ Len(after) = Len(before) + 1
              /\ SubSeq(after, 1, Len(before)) = before
              /\ after[Len(after)] = item
              /\ item = [ID |-> Len(before) + 1, Text |-> todo'.upd.arg,
                         Done |-> FALSE, UserID |-> u] ]_vars

\* AddItem has added to a list of at least two items from which an item was
\* removed before
C17_Witness ==
    /\ todo.upd.called = "AddItem"
    /\ ~todo.onlyAdds[todo.upd.userID]
    /\ Len(todoLists[todo.upd.userID]) >= 3

-----------------------------------------------------------------------------
(* C18 *)

\* the listing of items with the texts of added, numbered 1, 2, ... in order
RECURSIVE NumberedLines(_, _)
NumberedLines(added, k) ==
    IF k > Len(added) THEN <<>>
    ELSE Cat(Cat(Cat(Itoa(k) \o <<Run(".", 1), Run(" ", 1), Run("x", 3), Run(" ", 1)>>,
                     added[k].Text),
                 <<Run("\n", 1)>>),
             NumberedLines(added, k + 1))

\* C18: after n AddItem calls on a new list and no other operation on it,
\* ListItems shows the n items in insertion order, the k-th line with id k, the
\* id that the k-th AddItem returned.
C18_ListingFollowsInsertion ==
    \A u \in Users :
        todo.onlyAdds[u] =>
            LET items == ListOf(todoLists, u)
                added == todo.returned[u]
            IN  /\ Len(items) = Len(added)
                /\ \A k \in 1..Len(added) : added[k].ID = k /\ items[k] = added[k]
                /\ added # <<>> => ListItems(items) = NumberedLines(added, 1)
                /\ (todo.upd.called = "ListItems" /\ todo.upd.userID = u) =>
                      todo.upd.response = ListItems(items)

\* /list is answered for a list made by three AddItem calls, with two texts
C18_Witness ==
    /\ todo.upd.called = "ListItems"
    /\ todo.onlyAdds[todo.upd.userID]
    /\ Len(todo.returned[todo.upd.userID]) = 3
    /\ todo.returned[todo.upd.userID][1].Text # todo.returned[todo.upd.userID][2].Text

-----------------------------------------------------------------------------
(* C19 *)

HasID(items, id) == \E i \in 1..Len(items) : items[i].ID = id

DuplicateIDs(items) ==
    \E i, j \in 1..Len(items) : i # j /\ items[i].ID = items[j].ID

\* C19: ids are reused after removal: AddItem gives the id (number of items) + 1
\* also when an item with that id is in the list, and the list then holds two
\* items with the same id.
C19_IDsAreReused ==
    [][ Calling("AddItem") =>
          LET u == todo'.upd.userID
              before == ListOf(todoLists, u)
          IN  HasID(before, Len(before) + 1) =>
                 /\ todo'.upd.item.ID = Len(before) + 1
                 /\ DuplicateIDs(todoLists'[u]) ]_vars

\* after AddItem, AddItem, RemoveItem(1), AddItem: two items with the id 2
C19_Witness ==
    /\ todo.upd.called = "AddItem"
    /\ todo.upd.item.ID = 2
    /\ Len(todoLists[todo.upd.userID]) = 2
    /\ DuplicateIDs(todoLists[todo.upd.userID])

-----------------------------------------------------------------------------
(* C20 *)

\* C20: RemoveItem(id) returns true exactly when some item has the id; it then
\* removes the first such item only: the list is one shorter and the other
\* items, their fields and their order are kept; when no item has the id it
\* returns false and the list is unchanged.
C20_RemoveItemFirstMatch ==
    [][ Calling("RemoveItem") =>
          LET u == todo'.upd.userID
              id == Atoi(todo'.upd.arg).val
              before == ListOf(todoLists, u)
              after == todoLists'[u]
          IN  /\ todo'.upd.found <=> HasID(before, id)
              /\ ~todo'.upd.found => after = before
              /\ todo'.upd.found =>
                   /\ Len(after) = Len(before) - 1
                   /\ \E i \in 1..Len(before) :
                        /\ before[i].ID = id
                        /\ \A j \in 1..(i - 1) : before[j].ID # id
                        /\ \A j \in 1..Len(after) :
                             after[j] = before[IF j < i THEN j ELSE j + 1] ]_vars

\* RemoveItem has removed the first of two items with the same id: the other
\* is still in the list
C20_Witness ==
    /\ todo.upd.called = "RemoveItem"
    /\ todo.upd.found
    /\ HasID(todoLists[todo.upd.userID], Atoi(todo.upd.arg).val)

\* RemoveItem found no item with the id in a list that has items
C20_WitnessNotFound ==
    /\ todo.upd.called = "RemoveItem"
    /\ ~todo.upd.found
    /\ Len(todoLists[todo.upd.userID]) >= 1

-----------------------------------------------------------------------------
(* C11 *)

\* C11: every non-empty freeform message gets a final text: once the handler
\* of a question has returned, at least one send of the answer or of an error
\* text was attempted, whichever of the placeholder send, the completion call
\* or the placeholder's deletion failed.
C11_EveryQuestionGetsAFinalText ==
    (pref.pc = "recv" /\ pref.msg.kind = "prompt") => pref.finals >= 1

-----------------------------------------------------------------------------
(* C21 *)

\* C21: ToggleItem(id) returns true exactly when some item has the id; it then
\* flips the done flag of the first such item only and changes nothing else
\* (length, order, ids, texts, the flags of the other items); when no item has
\* the id it returns false and the list is unchanged.
C21_ToggleItemFirstMatch ==
    [][ Calling("ToggleItem") =>
          LET u == todo'.upd.userID
              id == Atoi(todo'.upd.arg).val
              before == ListOf(todoLists, u)
              after == todoLists'[u]
          IN  /\ todo'.upd.found <=> HasID(before, id)
              /\ ~todo'.upd.found => after = before
              /\ todo'.upd.found =>
                   /\ Len(after) = Len(before)
                   /\ \E i \in 1..Len(before) :
                        /\ before[i].ID = id
                        /\ \A j \in 1..(i - 1) : before[j].ID # id
                        /\ after[i] = [before[i] EXCEPT !.Done = ~before[i].Done]
                        /\ \A j \in 1..Len(before) : j # i => after[j] = before[j] ]_vars

\* ToggleItem has flipped the first of two items with the same id: the second
\* keeps its flag
C21_Witness ==
    /\ todo.upd.called = "ToggleItem"
    /\ todo.upd.found
    /\ LET items == todoLists[todo.upd.userID]
           id == Atoi(todo.upd.arg).val
       IN  \E i, j \in 1..Len(items) :
              /\ i < j
              /\ items[i].ID = id /\ items[j].ID = id
              /\ items[i].Done /\ ~items[j].Done

\* ToggleItem found no item with the id in a list that has items
C21_WitnessNotFound ==
    /\ todo.upd.called = "ToggleItem"
    /\ ~todo.upd.found
    /\ Len(todoLists[todo.upd.userID]) >= 1

-----------------------------------------------------------------------------
(* C22 *)

\* the orders in which the callers can be lined up
CallOrders ==
    {o \in [1..MaxCallers -> Callers] : \A i, j \in 1..MaxCallers : o[i] = o[j] => i = j}

\* the call of caller c made alone on items: the list after it, and whether it
\* returns what c got
Alone(c, items) ==
    CASE c.op = "AddItem" ->
            LET r == AddItem(items, c.text, OwnerID)
            IN  [Items |-> r.Items, same |-> c.item = r.item]
      [] c.op = "RemoveItem" ->
            LET r == RemoveItem(items, c.id)
            IN  [Items |-> r.Items, same |-> c.found = r.found]
      [] c.op = "ToggleItem" ->
            LET r == ToggleItem(items, c.id)
            IN  [Items |-> r.Items, same |-> c.found = r.found]
      [] OTHER ->
            [Items |-> items, same |-> c.listing = ListItems(items)]

\* the calls made one after the other in the order o, from the k-th on, starting
\* with items, return what the callers got and end with the list tl has
RECURSIVE OneAfterTheOther(_, _, _)
OneAfterTheOther(o, k, items) ==
    IF k > Len(o) THEN items = tl.Items
    ELSE LET r == Alone(callers[o[k]], items)
         IN  r.same /\ OneAfterTheOther(o, k + 1, r.Items)

AllReturned == \A p \in Callers : callers[p].pc \in {"send", "recv"}

\* C22: concurrent AddItem, RemoveItem, ToggleItem and ListItems calls on one
\* list are serialized by its lock: when all have returned, the list and the
\* returned values are those of the calls made one after the other in some
\* order; concurrent AddItem calls on a list of n items lose no item and get
\* the ids n + 1, n + 2, ...
C22_CallsAreSerialized ==
    AllReturned =>
        /\ \E o \in CallOrders : OneAfterTheOther(o, 1, tlBefore)
        /\ (\A p \in Callers : callers[p].op = "AddItem") =>
              /\ Len(tl.Items) = Len(tlBefore) + MaxCallers
              /\ SubSeq(tl.Items, 1, Len(tlBefore)) = tlBefore
              /\ {callers[p].item.ID : p \in Callers} =
                    (Len(tlBefore) + 1)..(Len(tlBefore) + MaxCallers)
              /\ \A p \in Callers : tl.Items[callers[p].item.ID] = callers[p].item

\* two AddItem calls were in progress at the same time on a list of two items:
\* the caller that called second got the lock first
C22_Witness ==
    /\ AllReturned
    /\ \A p \in Callers : callers[p].op = "AddItem"
    /\ Len(tlBefore) = 2
    /\ callers[1].item.ID > callers[MaxCallers].item.ID

\* a RemoveItem and a ToggleItem of the same id were in progress at the same
\* time and RemoveItem came first: ToggleItem found the other item with the id
C22_WitnessRemoveToggle ==
    /\ AllReturned
    /\ callers[1].op = "RemoveItem" /\ callers[1].found
    /\ callers[2].op = "ToggleItem" /\ callers[2].found
    /\ callers[1].id = callers[2].id
    /\ Len(tl.Items) = 1 /\ tl.Items[1].Done

-----------------------------------------------------------------------------
(* C23 *)

\* the positions of a caller inside a method, between Lock and the return
InsideMethod == {"build", "append", "scan", "cut", "flip", "read", "return"}

\* the lock is held by a caller that is inside a method, and by nobody when no
\* caller is: not before the call, not after a return, not while sending
HeldOnlyInsideMethod ==
    /\ tl.mu # 0 => callers[tl.mu].pc \in InsideMethod
    /\ \A p \in Callers : callers[p].pc \in InsideMethod => tl.mu = p

\* C23: the lock of a list is held only for the duration of one store
\* operation: it is released on every return path of AddItem, RemoveItem,
\* ToggleItem and ListItems, the returns from inside the loop included, it is
\* never held while a message is sent, and so no operation waits for the lock
\* forever.
C23_LockHeldOnlyDuringOperation ==
    /\ []HeldOnlyInsideMethod
    /\ \A p \in Callers : (callers[p].pc = "lock") ~> (callers[p].pc # "lock")

\* a caller is inside a method with the lock that a RemoveItem or ToggleItem
\* which returned true from inside its loop held before; that one is sending
C23_Witness ==
    \E p, q \in Callers :
        /\ callers[p].pc = "send" /\ callers[p].found
        /\ callers[q].pc \in InsideMethod /\ tl.mu = q

-----------------------------------------------------------------------------
(* C24 *)

\* s is a decimal integer: digits, after at most one sign, and nothing else
IsInteger(s) ==
    LET body == IF s # <<>> /\ s[1] \in {Run("+", 1), Run("-", 1)} THEN Tail(s) ELSE s
    IN  body # <<>> /\ \A i \in 1..Len(body) : body[i].ch \in DigitChars

\* this step answers a /remove or /toggle command with an argument
AnswersIdCommand ==
    todo.pc = "recv" /\ todo'.pc = "send" /\ todo'.upd.cmd \in {"/remove ", "/toggle "}

\* C24: a /remove or /toggle command whose argument is not a valid integer is
\* answered with the invalid-id message, reaches neither RemoveItem nor
\* ToggleItem, and leaves the list of the user and of every other user
\* unchanged.
C24_InvalidIdChangesNothing ==
    [][ (AnswersIdCommand /\ ~IsInteger(todo'.upd.arg)) =>
          /\ todo'.upd.response = BadIDText
          /\ todo'.upd.called = ""
          /\ \A u \in Users : ListOf(todoLists', u) = ListOf(todoLists, u) ]_vars

\* "/remove 1a" is answered with the invalid-id message by a user whose list
\* has the item 1
C24_Witness ==
    /\ todo.pc = "send"
    /\ todo.upd.cmd = "/remove "
    /\ todo.upd.arg = <<Run("1", 1), Run("a", 1)>>
    /\ todo.upd.response = BadIDText
    /\ HasID(todoLists[todo.upd.userID], 1)

\* "/toggle " with nothing after it is answered with the invalid-id message
C24_WitnessEmpty ==
    /\ todo.pc = "send"
    /\ todo.upd.cmd = "/toggle "
    /\ todo.upd.arg = <<>>
    /\ todo.upd.response = BadIDText
    /\ Len(todoLists[todo.upd.userID]) >= 1

-----------------------------------------------------------------------------
(* C25 *)

\* C25: in every variant of the completion gateway, an HTTP 200 response whose
\* list of choices is empty yields a successful result with the fixed fallback
\* text, not an error, and the loop delivers that text as the answer: here for
\* makeAIRequest of the preference variant.
C25_NoChoicesIsNoError ==
    (pref.pc \in {"delete", "final_send"} /\ pref.outcome = "nochoices") =>
        /\ ~pref.err.isErr
        /\ pref.response # <<>>
        /\ pref.response # AiErrorText(pref.err.msg)

-----------------------------------------------------------------------------
(* C26 *)

\* C26: a non-success HTTP status from the provider makes the gateway return
\* an error, never an answer, and the error embeds the raw response body; the
\* error text of the freeform branch contains that error, and it is this text
\* that the delivery sends: whole when it fits one message, else its words in
\* their order.
C26_StatusErrorReachesUser ==
    \A t \in Procs :
        tasks[t].http.kind = "status" =>
            LET task == tasks[t]
            IN  /\ task.http.status # 200
                /\ task.err.isErr
                /\ Contains(task.err.msg, task.http.body)
                /\ Contains(task.err.msg, Itoa(task.http.status))
                /\ Contains(task.response, task.err.msg)
                /\ task.pc = "send" =>
                     /\ task.sl.chunks = Parts(task.response)
                     /\ StrLen(task.response) <= MaxMessageLength =>
                           task.sl.chunks = <<task.response>>
                     /\ WordsOf(task.sl.chunks) = Fields(task.response)
                     /\ \A k \in 1..Len(task.sl.attempts) :
                           \E c \in 1..Len(task.sl.chunks) :
                               task.sl.attempts[k].text = task.sl.chunks[c]
                     /\ task.sl.pc = "plain" =>
                           task.sl.attempts[1].text = task.sl.chunks[task.sl.i + 1]
                     /\ task.sl.accepted = SubSeq(task.sl.chunks, 1, task.sl.i)

\* after a status 404 with a short body the error text is one message; its
\* formatted send was rejected and the plain one is next
C26_Witness ==
    \E t \in Procs :
        /\ tasks[t].http.status = 404
        /\ tasks[t].pc = "send"
        /\ tasks[t].sl.pc = "plain"
        /\ tasks[t].sl.attempts[1].text = tasks[t].response
        /\ Contains(tasks[t].response, ShortBody)

\* after a status 500 with a body of 6001 bytes the first chunk of the error
\* text was accepted and the second is next
C26_WitnessLong ==
    \E t \in Procs :
        /\ tasks[t].http.status = 500
        /\ tasks[t].pc = "send"
        /\ Len(tasks[t].sl.accepted) = 1
        /\ Len(tasks[t].sl.chunks) = 2

-----------------------------------------------------------------------------
(* C27 *)

\* the style stored for the user, "unset" for a user without a row
StoredStyle(u) == IF u \in DOMAIN users THEN users[u] ELSE "unset"

\* aiChat is past the style resolution of a question
StyleResolved ==
    /\ pref.msg.kind = "prompt"
    /\ pref.pc \in {"thinking", "request", "delete", "final_send"}

\* C27: style resolution in the freeform branch: a user with no stored
\* preference gets the friendly system prompt, a user whose stored style is
\* meme (or official) gets the matching prompt, an unrecognized stored value or
\* a read error of the store falls back to the friendly prompt; the completion
\* call is made with exactly one of the three known prompts.
C27_StyleResolution ==
    StyleResolved =>
        LET stored == StoredStyle(pref.msg.userID)
        IN  /\ pref.systemPrompt \in {FriendlyPrompt, OfficialPrompt, MemePrompt}
            /\ pref.styleErr => pref.systemPrompt = FriendlyPrompt
            /\ ~pref.styleErr =>
                 /\ stored = "meme" => pref.systemPrompt = MemePrompt
                 /\ stored = "official" => pref.systemPrompt = OfficialPrompt
                 /\ stored \notin {"meme", "official"} =>
                       pref.systemPrompt = FriendlyPrompt

\* the provider was called for a user whose stored style is none of the three
C27_Witness ==
    /\ StyleResolved
    /\ pref.calls = 1
    /\ ~pref.styleErr
    /\ StoredStyle(pref.msg.userID) = "pirate"
    /\ pref.systemPrompt = FriendlyPrompt

\* the provider was called with the meme prompt for a user who chose the meme
\* style in this run, after another style was stored
C27_WitnessMeme ==
    /\ StyleResolved
    /\ pref.calls = 1
    /\ pref.n >= 2
    /\ StoredStyle(pref.msg.userID) = "meme"
    /\ pref.systemPrompt = MemePrompt

\* the store could not be read for a user whose stored style is official
C27_WitnessReadError ==
    /\ StyleResolved
    /\ pref.styleErr
    /\ StoredStyle(pref.msg.userID) = "official"
    /\ pref.systemPrompt = FriendlyPrompt

\* a user without a row
C27_WitnessUnset ==
    /\ StyleResolved
    /\ ~pref.styleErr
    /\ StoredStyle(pref.msg.userID) = "unset"
    /\ pref.systemPrompt = FriendlyPrompt

-----------------------------------------------------------------------------
(* C28 *)

\* the style of the button the message of the current handler is
ChosenStyle == CHOOSE s \in Styles : Label(s) = pref.msg.text

\* C28: preference lifecycle: the first style selection of a user creates the
\* row of that user, later selections update it (after a successful
\* setUserStyle(u, s), getUserStyle(u) returns s), no operation deletes a row
\* or changes the row of another user, and every stored style is one of
\* friendly, official, meme.
C28_PreferenceLifecycle ==
    [][ LET u == pref.msg.userID
        IN  /\ DOMAIN users \subseteq DOMAIN users'
            /\ \A v \in DOMAIN users' : users'[v] \in Styles
            /\ \A v \in DOMAIN users' :
                  v # u => v \in DOMAIN users /\ users'[v] = users[v]
            /\ users' # users => pref.pc \in {"insert", "update"}
            /\ (pref.pc = "insert" /\ pref'.pc = "update") =>
                  /\ u \in DOMAIN users'
                  /\ u \notin DOMAIN users => users'[u] = ChosenStyle
                  /\ u \in DOMAIN users => users'[u] = users[u]
            /\ (pref.pc = "update" /\ pref'.pc = "style_send") =>
                  /\ users'[u] = ChosenStyle
                  /\ getUserStyle(users', u, TRUE) = [style |-> ChosenStyle, err |-> FALSE]
      ]_vars

\* the third message is a style selection that succeeded: the row of the user
\* holds the chosen style, the row of the other user holds another style
C28_Witness ==
    /\ pref.pc = "style_send"
    /\ pref.n = 3
    /\ DOMAIN users = Users
    /\ users[pref.msg.userID] = ChosenStyle
    /\ \E v \in Users : users[v] # ChosenStyle

-----------------------------------------------------------------------------
(* C29 *)

\* C29: for every text, splitMessage returns at least one chunk and no chunk
\* it returns is empty (so that a sendLongMessage that returns success has sent
\* at least one message), also for a text longer than maxLength that consists
\* of whitespace only.
C29_AtLeastOneChunkNoneEmpty ==
    split.pc = "done" =>
        /\ Len(split.chunks) >= 1
        /\ \A i \in 1..Len(split.chunks) : StrLen(split.chunks[i]) > 0

-----------------------------------------------------------------------------
(* C30 *)

\* this step answers a message of user u
Answers(u) == todo.pc = "recv" /\ todo'.pc = "send" /\ todo'.upd.userID = u

\* C30: per-user isolation: a command of user A (add, remove, toggle, list)
\* never changes the list of another user B; the record of a user is created
\* on the first message of that user and is never removed or replaced after
\* that, also when all its items are removed.
C30_PerUserIsolation ==
    [][ /\ DOMAIN todoLists \subseteq DOMAIN todoLists'
        /\ \A u \in Users :
             Answers(u) =>
                /\ DOMAIN todoLists' = DOMAIN todoLists \cup {u}
                /\ \A v \in DOMAIN todoLists' \ {u} : todoLists'[v] = todoLists[v]
                /\ u \notin DOMAIN todoLists =>
                      todoLists'[u] = IF todo'.upd.called = "AddItem"
                                      THEN <<todo'.upd.item>>
                                      ELSE <<>>
                /\ (u \in DOMAIN todoLists
                      /\ todo'.upd.called \in {"", "ListItems"}) =>
                      todoLists'[u] = todoLists[u]
                /\ (u \in DOMAIN todoLists /\ todo'.upd.called = "AddItem") =>
                      SubSeq(todoLists'[u], 1, Len(todoLists[u])) = todoLists[u]
        /\ (\A u \in Users : ~Answers(u)) => todoLists' = todoLists ]_vars

\* a user has removed the only item of the list: the record is still there,
\* empty, and the other user's list has its item
C30_Witness ==
    /\ todo.upd.called = "RemoveItem"
    /\ todo.upd.found
    /\ todoLists[todo.upd.userID] = <<>>
    /\ \E v \in DOMAIN todoLists : v # todo.upd.userID /\ Len(todoLists[v]) = 1

\* the first message of a user is /list while the other user has two items
C30_WitnessFirstMessage ==
    /\ todo.upd.called = "ListItems"
    /\ todo.upd.response = EmptyListText
    /\ \E v \in DOMAIN todoLists : v # todo.upd.userID /\ Len(todoLists[v]) = 2

-----------------------------------------------------------------------------
(* C31 *)

\* this step is the write of b.userStats[userID]++ in the goroutine t
StoresCounter(t) == tasks[t].pc = "stats_store" /\ tasks'[t].pc = "typing"

\* this step is a step of the loop of Run: it takes an update or sends a
\* part of the reply to a command
LoopStep == loop' # loop

\* the update the loop takes in this step goes one way: the command branch,
\* which starts no goroutine, or the goroutine of handleMessage
OneBranch ==
    (loop.pc = "recv" /\ loop'.n = loop.n + 1) =>
        \/ loop'.pc = "send" /\ tasks' = tasks
        \/ /\ loop'.pc = "recv"
           /\ tasks'[loop'.n].pc = "stats_load"
           /\ \A t \in Procs \ {loop'.n} : tasks'[t] = tasks[t]
        \/ loop'.pc = "recv" /\ tasks' = tasks

\* the frame of the two branches, step by step
BranchFrames ==
    /\ OneBranch
    /\ LoopStep =>
          /\ userStats' = userStats
          /\ \A t \in Procs : /\ tasks'[t].calls = tasks[t].calls
                              /\ tasks'[t].placeholders = tasks[t].placeholders
    /\ \A t \in Procs :
          StoresCounter(t) =>
             /\ DOMAIN userStats' = DOMAIN userStats \cup {tasks[t].userID}
             /\ userStats'[tasks[t].userID] = Stat(tasks[t].userID) + 1
             /\ \A v \in DOMAIN userStats' \ {tasks[t].userID} :
                   v \in DOMAIN userStats /\ userStats'[v] = userStats[v]
    /\ (\A t \in Procs : ~StoresCounter(t)) => userStats' = userStats

\* C31: every message Run takes goes exactly one of the two ways: a command
\* never triggers a completion call, never sends a placeholder and never
\* changes a message counter; a freeform message of user u changes the
\* counter of u only, by exactly one, before the completion call.
C31_CommandAndFreeformFrames ==
    /\ [][BranchFrames]_vars
    /\ [](\A t \in Procs :
            tasks[t].pc \in {"none", "stats_load", "stats_store"} =>
               tasks[t].calls = 0 /\ tasks[t].placeholders = 0)

-----------------------------------------------------------------------------
(* C32 *)

\* this step takes a message that is no command and has a text
TakesText ==
    /\ pref.pc = "recv"
    /\ pref'.n = pref.n + 1
    /\ pref'.msg.kind \in {"button", "blank", "prompt"}

\* the message in hand is no command and its trimmed text is a button label
TrimmedIsButton ==
    /\ pref.msg.kind \in {"button", "blank", "prompt"}
    /\ TrimSpace(pref.msg.text) \in StyleButtons

\* a message whose trimmed text is a label goes to setUserStyle with the
\* style of that label, and only the handling of such a message writes the table
ButtonFrames ==
    /\ TakesText =>
          LET userPrompt == TrimSpace(pref'.msg.text)
          IN  userPrompt \in StyleButtons =>
                 /\ pref'.pc = "insert"
                 /\ Label(pref'.style) = userPrompt
    /\ users' # users => TrimmedIsButton
    /\ (pref.pc = "update" /\ pref'.pc = "style_send") =>
          /\ pref.msg.userID \in DOMAIN users'
          /\ Label(users'[pref.msg.userID]) = TrimSpace(pref.msg.text)

\* C32: in the preference variant a message that is no command and whose
\* trimmed text is one of the three button labels is handled as a style
\* selection only: it updates the stored style of the sender and never sends
\* a placeholder or calls the completion provider; any other text that is
\* not empty never changes the stored style.
C32_ButtonIsStyleSelectionOnly ==
    /\ [][ButtonFrames]_vars
    /\ [](TrimmedIsButton => pref.placeholders = 0 /\ pref.calls = 0)

=============================================================================
